---------------------------- MODULE Spec2Model ----------------------------
(***************************************************************************)
(* Verification model of sefaria/model/schema.py: the title group, the     *)
(* titled schema tree, the numbered-node citation regular expression and   *)
(* the address types.                                                      *)
(*                                                                         *)
(* Python strings that are only compared or concatenated are TLA+ strings; *)
(* strings that are indexed, parsed or matched are sequences of one-       *)
(* character strings.  Python's None in an optional slot is the empty      *)
(* sequence << >>, a present value v is << v >>.                           *)
(***************************************************************************)
EXTENDS Integers, Sequences, FiniteSets, TLC

VARIABLES
    titles,          \* TitleGroup.titles: the list of title records
    _primary_title,  \* TitleGroup._primary_title: lang -> cached primary text
    last,            \* the last call made on the title group, and its outcome
    call,            \* a call of a stateless operation: its input, then its result
    objects,         \* the tree nodes a client holds: identity -> attributes
    threads          \* the threads reading a tree: request, call stack, result

vars == <<titles, _primary_title, last, call, objects, threads>>

(***************************************************************************)
(* Bounds of the model.                                                    *)
(***************************************************************************)
MaxTitles == 2

Langs == {"en", "he"}
Texts == {"A", "B"}
Presentations == {"combined", "alone", "both"}
\* add_title stores "alone" and "both" through the same branch (line 100) and
\* nothing else in the title group reads the field: its clients pass these
TGPresentations == {"combined", "alone"}

None == << >>
Some(v) == << v >>

(***************************************************************************)
(* TitleGroup                                                              *)
(*                                                                         *)
(* A title record is the dict {"text", "lang", "primary"?, "presentation"?}*)
(* A missing "primary" key is primary = FALSE; a missing "presentation"    *)
(* key is "combined" (the code only ever compares the field with "alone"   *)
(* and "both").                                                            *)
(***************************************************************************)
TitleRecord(text, lang, primary, presentation) ==
    [text |-> text, lang |-> lang, primary |-> primary,
     presentation |-> IF presentation = "alone" \/ presentation = "both"
                      THEN presentation ELSE "combined"]

\* the records of `ts` marked primary in language `lang`, by position
PrimaryIdx(ts, lang) == {i \in DOMAIN ts : ts[i].lang = lang /\ ts[i].primary}

\* "for t in self.titles: if ...: ...; break": the first matching record
FirstPrimary(ts, lang) ==
    LET idx == PrimaryIdx(ts, lang)
    IN  ts[CHOOSE i \in idx : \A j \in idx : i <= j]

\* TitleGroup.primary_title(lang): [cache |-> the cache afterwards, ret |-> text]
primary_title(ts, cache, lang) ==
    LET c1 == IF cache[lang] = None /\ PrimaryIdx(ts, lang) # {}
              THEN [cache EXCEPT ![lang] = Some(FirstPrimary(ts, lang).text)]
              ELSE cache
        c2 == IF c1[lang] = None \/ c1[lang] = Some("")
              THEN [c1 EXCEPT ![lang] = Some("")]
              ELSE c1
    IN  [cache |-> c2, ret |-> c2[lang][1]]

\* TitleGroup.all_titles(lang)
all_titles(ts, lang) ==
    LET ofLang == SelectSeq(ts, LAMBDA t : t.lang = lang)
    IN  [i \in DOMAIN ofLang |-> ofLang[i].text]

\* a faulty remove_title, for comparison: records marked primary are kept
remove_title_keep_primary(ts, text, lang) ==
    SelectSeq(ts, LAMBDA t : ~(t.lang = lang /\ t.text = text /\ ~t.primary))

\* TitleGroup.remove_title(text, lang): the title list afterwards
remove_title(ts, text, lang) ==
    SelectSeq(ts, LAMBDA t : ~(t.lang = lang /\ t.text = text))

\* a faulty demotion, for comparison: the old primary record is kept as it is
DemoteAppendAll(ts, lang, old_primary) ==
    Append(ts, TitleRecord(old_primary, lang, FALSE, "combined"))

\* add_title, lines 109-110: drop every primary of `lang`, re-add the old
\* primary text as a plain title
DemoteOldPrimary(ts, lang, old_primary) ==
    Append(SelectSeq(ts, LAMBDA t : t.lang # lang \/ ~t.primary),
           TitleRecord(old_primary, lang, FALSE, "combined"))

\* TitleGroup.add_title(text, lang, primary, replace_primary, presentation):
\* [titles, cache |-> the fields afterwards, raised |-> IndexSchemaError?,
\*  ret |-> "None" (the early return) or "self"]
add_title(ts, cache, text, lang, primary, replace_primary, presentation) ==
    LET present == \E i \in DOMAIN ts : ts[i].text = text /\ ts[i].lang = lang
    IN  IF present /\ ~replace_primary
        THEN [titles |-> ts, cache |-> cache, raised |-> FALSE, ret |-> "None"]
        ELSE
        LET ts1 == IF present THEN remove_title(ts, text, lang) ELSE ts
            d == TitleRecord(text, lang, primary, presentation)
            has_primary == PrimaryIdx(ts1, lang) # {}
        IN  IF has_primary /\ primary
            THEN IF ~replace_primary
                 THEN \* the error message evaluates self.primary_title()
                      [titles |-> ts1,
                       cache |-> primary_title(ts1, cache, "en").cache,
                       raised |-> TRUE, ret |-> "None"]
                 ELSE LET p == primary_title(ts1, cache, lang)
                      IN  [titles |-> Append(DemoteOldPrimary(ts1, lang, p.ret), d),
                           cache |-> [p.cache EXCEPT ![lang] = None],
                           raised |-> FALSE, ret |-> "self"]
            ELSE [titles |-> Append(ts1, d), cache |-> cache,
                  raised |-> FALSE, ret |-> "self"]

(***************************************************************************)
(* The title group as a state machine: a client calls its methods in any   *)
(* order.  `last` records the call and its outcome; pre_primary is the     *)
(* text of the record that was marked primary for the call's language when *)
(* the call was made (None if there was none).                             *)
(***************************************************************************)
ActualPrimary(ts, lang) ==
    IF PrimaryIdx(ts, lang) = {} THEN None ELSE Some(FirstPrimary(ts, lang).text)

Call(op, text, lang, primary, replace_primary, pre_primary, raised, ret) ==
    [op |-> op, text |-> text, lang |-> lang, primary |-> primary,
     replace_primary |-> replace_primary, pre_primary |-> pre_primary,
     raised |-> raised, ret |-> ret]

InitTG ==
    /\ titles = << >>
    /\ _primary_title = [l \in Langs |-> None]
    /\ last = Call("init", "", "en", FALSE, FALSE, None, FALSE, "None")
    /\ objects = << >>
    /\ threads = << >>
    /\ call = [op |-> "none"]

AddTitle(text, lang, primary, replace_primary, presentation) ==
    LET r == add_title(titles, _primary_title, text, lang, primary,
                       replace_primary, presentation)
    IN  /\ Len(titles) < MaxTitles
        /\ titles' = r.titles
        /\ _primary_title' = r.cache
        /\ last' = Call("add_title", text, lang, primary, replace_primary,
                        ActualPrimary(titles, lang), r.raised, r.ret)
        /\ UNCHANGED <<call, objects, threads>>

RemoveTitle(text, lang) ==
    /\ titles' = remove_title(titles, text, lang)
    /\ UNCHANGED _primary_title
    /\ last' = Call("remove_title", text, lang, FALSE, FALSE,
                    ActualPrimary(titles, lang), FALSE, "self")
    /\ UNCHANGED <<call, objects, threads>>

PrimaryTitle(lang) ==
    LET r == primary_title(titles, _primary_title, lang)
    IN  /\ UNCHANGED titles
        /\ _primary_title' = r.cache
        /\ last' = Call("primary_title", "", lang, FALSE, FALSE,
                        ActualPrimary(titles, lang), FALSE, r.ret)
        /\ UNCHANGED <<call, objects, threads>>

DoAddTitle ==
    \E text \in Texts, lang \in Langs, primary \in BOOLEAN,
       replace_primary \in BOOLEAN, presentation \in TGPresentations :
        AddTitle(text, lang, primary, replace_primary, presentation)

DoRemoveTitle == \E text \in Texts, lang \in Langs : RemoveTitle(text, lang)

DoPrimaryTitle == \E lang \in Langs : PrimaryTitle(lang)

NextTG == DoAddTitle \/ DoRemoveTitle \/ DoPrimaryTitle

SpecTG == InitTG /\ [][NextTG]_vars

(***************************************************************************)
(* Claims about the title group (checked under SpecTG).                    *)
(***************************************************************************)

\* C1: after any sequence of add_title / remove_title calls on a group that
\* started empty, every language has at most one record marked primary.
SinglePrimary == \A l \in Langs : Cardinality(PrimaryIdx(titles, l)) <= 1

\* a replacing add_title has just demoted an existing primary
SinglePrimaryWitness ==
    /\ last.op = "add_title" /\ last.primary /\ last.replace_primary
    /\ ~last.raised
    /\ last.pre_primary # None /\ last.pre_primary # Some(last.text)
    /\ Cardinality(PrimaryIdx(titles, last.lang)) = 1
    /\ Len(all_titles(titles, last.lang)) >= 2

\* C2: primary_title(l) returns the text of the record currently marked
\* primary for l, or "" when no record of l is primary.
PrimaryTitleCoherent ==
    last.op = "primary_title" =>
        last.ret = (IF ActualPrimary(titles, last.lang) = None
                    THEN "" ELSE ActualPrimary(titles, last.lang)[1])

\* C3: add_title(t, l, primary=true, replace_primary=true) on a group whose
\* primary for l is p # t keeps p as a non-primary title of l, makes t the
\* only primary of l and adds no other title text.
ReplaceDemotes ==
    [][\A t \in Texts, l \in Langs, pres \in TGPresentations :
         ( /\ AddTitle(t, l, TRUE, TRUE, pres)
           /\ ActualPrimary(titles, l) # None
           /\ ActualPrimary(titles, l) # Some(t) )
         => ( /\ \E i \in DOMAIN titles' :
                    /\ titles'[i].lang = l /\ ~titles'[i].primary
                    /\ titles'[i].text = ActualPrimary(titles, l)[1]
              /\ \A i \in DOMAIN titles' :
                    (titles'[i].lang = l /\ titles'[i].primary)
                        => titles'[i].text = t
              /\ Cardinality(PrimaryIdx(titles', l)) = 1
              /\ \A i \in DOMAIN titles' :
                    \/ titles'[i].text = t
                    \/ \E j \in DOMAIN titles :
                          /\ titles[j].text = titles'[i].text
                          /\ titles[j].lang = titles'[i].lang )
    ]_vars

\* C4: no two records of the group have the same (text, lang) pair.
TitlesUnique ==
    \A i, j \in DOMAIN titles :
        (titles[i].text = titles[j].text /\ titles[i].lang = titles[j].lang)
            => i = j

\* C5: when a primary exists for l, add_title(text, l, primary=true,
\* replace_primary=false) raises IndexSchemaError, whatever the text.
DuplicatePrimaryRejected ==
    ( /\ last.op = "add_title" /\ last.primary /\ ~last.replace_primary
      /\ last.pre_primary # None )
        => last.raised

\* the title list `ts` has a record with this text in this language
InAllTitles(ts, text, lang) ==
    \E k \in DOMAIN all_titles(ts, lang) : all_titles(ts, lang)[k] = text

\* C16: title round trip.  After an add_title(t, l) that returns,
\* all_titles(l) contains t; after remove_title(t, l) it does not; and a
\* second remove_title(t, l) leaves the title list unchanged.
TitleRoundTrip ==
    [][/\ (last'.op = "add_title" /\ ~last'.raised)
            => InAllTitles(titles', last'.text, last'.lang)
       /\ last'.op = "remove_title"
            => /\ ~InAllTitles(titles', last'.text, last'.lang)
               /\ remove_title(titles', last'.text, last'.lang) = titles']_vars

\* the primary title of a language has just been removed, another title of
\* that language is left
TitleRoundTripWitness ==
    /\ last.op = "remove_title" /\ last.pre_primary = Some(last.text)
    /\ ~InAllTitles(titles, last.text, last.lang)
    /\ all_titles(titles, last.lang) # << >>

(***************************************************************************)
(* Strings that the address types parse and format: sequences of           *)
(* characters.                                                             *)
(***************************************************************************)
DigitChars == <<"0", "1", "2", "3", "4", "5", "6", "7", "8", "9">>
Digits == {DigitChars[i] : i \in DOMAIN DigitChars}
DigitVal(c) == (CHOOSE i \in DOMAIN DigitChars : DigitChars[i] = c) - 1

\* all sequences over `alphabet` of length at most n
RECURSIVE StringsUpTo(_, _)
StringsUpTo(alphabet, n) ==
    IF n = 0 THEN {<< >>}
    ELSE LET shorter == StringsUpTo(alphabet, n - 1)
         IN  shorter \cup {Append(s, c) : s \in shorter, c \in alphabet}

\* str(n), "%d" % n
RECURSIVE NatToStr(_)
NatToStr(n) ==
    IF n < 10 THEN <<DigitChars[n + 1]>>
    ELSE NatToStr(n \div 10) \o <<DigitChars[(n % 10) + 1]>>

IntToStr(n) == IF n < 0 THEN <<"-">> \o NatToStr(-n) ELSE NatToStr(n)

RECURSIVE DigitsToNat(_)
DigitsToNat(s) ==
    IF s = << >> THEN 0
    ELSE 10 * DigitsToNat(SubSeq(s, 1, Len(s) - 1)) + DigitVal(s[Len(s)])

RECURSIVE LStrip(_)
LStrip(s) == IF s # << >> /\ s[1] = " " THEN LStrip(Tail(s)) ELSE s
RECURSIVE RStrip(_)
RStrip(s) ==
    IF s # << >> /\ s[Len(s)] = " " THEN RStrip(SubSeq(s, 1, Len(s) - 1)) ELSE s

\* Python's int(s): surrounding whitespace, an optional sign, decimal digits;
\* anything else is a ValueError.  [ok |-> parsed?, val |-> the integer]
int(s) ==
    LET t == RStrip(LStrip(s))
        signed == t # << >> /\ t[1] \in {"-", "+"}
        body == IF signed THEN Tail(t) ELSE t
    IN  IF body # << >> /\ \A i \in DOMAIN body : body[i] \in Digits
        THEN [ok |-> TRUE,
              val |-> IF signed /\ t[1] = "-" THEN -DigitsToNat(body)
                      ELSE DigitsToNat(body)]
        ELSE [ok |-> FALSE, val |-> 0]

(***************************************************************************)
(* AddressTalmud, English.  `length` is AddressType.length: None or the    *)
(* declared number of dafs.  A result is [raised |-> "" or the exception,  *)
(* ret |-> the value].                                                     *)
(***************************************************************************)
Returned(v) == [raised |-> "", ret |-> v]
Raised(e) == [raised |-> e, ret |-> 0]

\* AddressTalmud.toNumber("en", s)
toNumberEn(s, length) ==
    IF s = << >> THEN Raised("IndexError")          \* s[-1] of an empty string
    ELSE
    LET suffixed == s[Len(s)] \in {"a", "b"}
        amud == IF suffixed THEN s[Len(s)] ELSE "a"
        daf == IF suffixed THEN int(SubSeq(s, 1, Len(s) - 1)) ELSE int(s)
    IN  IF ~daf.ok THEN Raised("InputError")
        ELSE IF length # None /\ length[1] # 0 /\ daf.val > length[1]
        THEN Raised("InputError")
        ELSE Returned(IF amud = "a" THEN daf.val * 2 - 1 ELSE daf.val * 2)

\* a faulty toStr, for comparison: without "i += 1"
toStrEnStale(i) ==
    LET daf == i \div 2
    IN  IF i > daf * 2 THEN IntToStr(daf) \o <<"b">> ELSE IntToStr(daf) \o <<"a">>

\* AddressTalmud.toStr("en", i): "i += 1; daf = i / 2" (integer division)
toStrEn(i) ==
    LET i1 == i + 1
        daf == i1 \div 2
    IN  IF i1 > daf * 2 THEN IntToStr(daf) \o <<"b">> ELSE IntToStr(daf) \o <<"a">>

(***************************************************************************)
(* The Talmud address type as a state machine: a citation component or an  *)
(* index arrives, the conversion is applied to it.                         *)
(***************************************************************************)
MaxDafStr == 3
MaxIndex == 24
TalmudChars == {"0", "1", "2", "9", "a", "b", "x", " ", "-"}
TalmudLengths == {None, Some(0), Some(2), Some(12)}

InitTalmud ==
    /\ titles = << >>
    /\ _primary_title = [l \in Langs |-> None]
    /\ last = Call("init", "", "en", FALSE, FALSE, None, FALSE, "None")
    /\ objects = << >>
    /\ threads = << >>
    /\ call \in
         {[op |-> "toNumber", done |-> FALSE, s |-> s, length |-> len]
            : s \in StringsUpTo(TalmudChars, MaxDafStr), len \in TalmudLengths}
         \cup {[op |-> "toStr", done |-> FALSE, i |-> i] : i \in 0 .. MaxIndex}

ToNumber ==
    /\ call.op = "toNumber" /\ ~call.done
    /\ call' = [op |-> "toNumber", done |-> TRUE, s |-> call.s,
                length |-> call.length,
                res |-> toNumberEn(call.s, call.length)]
    /\ UNCHANGED <<titles, _primary_title, last, objects, threads>>

ToStr ==
    /\ call.op = "toStr" /\ ~call.done
    /\ call' = [op |-> "toStr", done |-> TRUE, i |-> call.i,
                res |-> toStrEn(call.i)]
    /\ UNCHANGED <<titles, _primary_title, last, objects, threads>>

NextTalmud == ToNumber \/ ToStr

SpecTalmud == InitTalmud /\ [][NextTalmud]_vars

\* C6: English Talmud round trip.  For daf d >= 1 within the declared maximum
\* and amud a/b, toNumber("en", d+amud) is 2d-1 / 2d and toStr maps it back
\* to d+amud; for index i >= 1, toStr("en", i) is ceil(i/2) followed by a
\* (i odd) or b (i even) and toNumber maps it back to i.
WithinLength(daf, length) == length = None \/ length[1] = 0 \/ daf <= length[1]

TalmudRoundTripEn ==
    /\ (call.op = "toNumber" /\ call.done) =>
         \A d \in 1 .. MaxIndex, amud \in {"a", "b"} :
            (call.s = IntToStr(d) \o <<amud>> /\ WithinLength(d, call.length))
              => /\ call.res = Returned(IF amud = "a" THEN 2 * d - 1 ELSE 2 * d)
                 /\ toStrEn(call.res.ret) = call.s
    /\ (call.op = "toStr" /\ call.done /\ call.i >= 1) =>
         LET half == IF call.i % 2 = 1 THEN (call.i + 1) \div 2 ELSE call.i \div 2
         IN  /\ call.res = IntToStr(half) \o <<IF call.i % 2 = 1 THEN "a" ELSE "b">>
             /\ \A len \in TalmudLengths :
                  WithinLength(half, len)
                    => toNumberEn(call.res, len) = Returned(call.i)

\* "2b" has been parsed to 4 on a node of two dafs, and 4 formats as "2b"
TalmudRoundTripEnWitness ==
    /\ call.op = "toNumber" /\ call.done
    /\ call.s = <<"2", "b">> /\ call.length = Some(2)
    /\ call.res = Returned(4)
    /\ toStrEn(4) = <<"2", "b">>

(***************************************************************************)
(* Regular expressions.  The code assembles pattern text and compiles it   *)
(* with regex.compile; the model assembles the pattern's syntax tree from  *)
(* the same pieces in the same order and matches it the way a backtracking *)
(* engine does: Match returns every way the pattern can match from a       *)
(* position, in the engine's order of preference, so the head of the list  *)
(* is the match the engine reports.                                        *)
(***************************************************************************)
Letters ==
    {"a", "b", "c", "d", "e", "f", "g", "h", "i", "j", "k", "l", "m", "n",
     "o", "p", "q", "r", "s", "t", "u", "v", "w", "x", "y", "z",
     "A", "B", "C", "D", "E", "F", "G", "H", "I", "J", "K", "L", "M", "N",
     "O", "P", "Q", "R", "S", "T", "U", "V", "W", "X", "Y", "Z"}
WordChars == Letters \cup Digits \cup {"_"}          \* \w

Lit(c) == [t |-> "class", neg |-> FALSE, set |-> {c}]     \* an escaped character
Class(set) == [t |-> "class", neg |-> FALSE, set |-> set]   \* [...]
NotClass(set) == [t |-> "class", neg |-> TRUE, set |-> set] \* \W
Cat(parts) == [t |-> "cat", parts |-> parts]               \* r1 r2 ...
Alt(parts) == [t |-> "alt", parts |-> parts]               \* r1 | r2 ...
Plus(r) == [t |-> "plus", r |-> r]                         \* r+
Star(r) == [t |-> "opt", r |-> [t |-> "plus", r |-> r]]    \* r*
Opt(r) == [t |-> "opt", r |-> r]                           \* r?
Group(name, r) == [t |-> "group", name |-> name, r |-> r]  \* (?P<name>r), (r)
Look(r) == [t |-> "look", r |-> r]                         \* (?=r)
Bol == [t |-> "bol"]                                       \* ^
Eol == [t |-> "eol"]                                       \* $

\* the literal word w, as in (?:Chapter|chapter)
Word(w) == Cat([i \in DOMAIN w |-> Lit(w[i])])

GroupNames == {"a0", "a1", "a2"}
MatchStart == [pos |-> 0, caps |-> [g \in GroupNames |-> None]]

RECURSIVE Match(_, _, _), MatchAll(_, _, _), MatchCat(_, _, _, _),
          MatchAlt(_, _, _, _), MatchMore(_, _, _, _)

\* the matches of r from state st (pos characters consumed), best first
Match(r, txt, st) ==
    CASE r.t = "class" ->
           IF st.pos < Len(txt) /\ ((txt[st.pos + 1] \in r.set) # r.neg)
           THEN <<[st EXCEPT !.pos = st.pos + 1]>> ELSE << >>
      [] r.t = "cat" -> MatchCat(r.parts, 1, txt, <<st>>)
      [] r.t = "alt" -> MatchAlt(r.parts, 1, txt, st)
      [] r.t = "plus" -> MatchMore(r, txt, st, Match(r.r, txt, st))
      [] r.t = "opt" -> Match(r.r, txt, st) \o <<st>>
      [] r.t = "group" ->
           LET inner == Match(r.r, txt, st)
           IN  IF r.name = "" THEN inner
               ELSE [i \in DOMAIN inner |->
                       [inner[i] EXCEPT !.caps[r.name] =
                           Some(SubSeq(txt, st.pos + 1, inner[i].pos))]]
      [] r.t = "look" -> IF Match(r.r, txt, st) # << >> THEN <<st>> ELSE << >>
      [] r.t = "bol" -> IF st.pos = 0 THEN <<st>> ELSE << >>
      [] r.t = "eol" ->      \* the end, or just before a final newline
           IF \/ st.pos = Len(txt)
              \/ (st.pos = Len(txt) - 1 /\ txt[Len(txt)] = "\n")
           THEN <<st>> ELSE << >>

\* r from each of the states sts, in their order
MatchAll(r, txt, sts) ==
    IF sts = << >> THEN << >>
    ELSE Match(r, txt, Head(sts)) \o MatchAll(r, txt, Tail(sts))

MatchCat(parts, k, txt, sts) ==
    IF k > Len(parts) THEN sts
    ELSE MatchCat(parts, k + 1, txt, MatchAll(parts[k], txt, sts))

MatchAlt(parts, k, txt, st) ==
    IF k > Len(parts) THEN << >>
    ELSE Match(parts[k], txt, st) \o MatchAlt(parts, k + 1, txt, st)

\* greedy repetition: after one iteration, more iterations are preferred
MatchMore(plus, txt, st, once) ==
    IF once = << >> THEN << >>
    ELSE (IF Head(once).pos > st.pos
          THEN Match(plus, txt, Head(once)) ELSE << >>)
         \o <<Head(once)>> \o MatchMore(plus, txt, st, Tail(once))

\* pattern.match(text): [matched, end |-> end of the match, caps |-> groups]
match(pattern, txt) ==
    LET ms == Match(pattern, txt, MatchStart)
    IN  IF ms = << >>
        THEN [matched |-> FALSE, end |-> 0, caps |-> MatchStart.caps]
        ELSE [matched |-> TRUE, end |-> ms[1].pos, caps |-> ms[1].caps]

(***************************************************************************)
(* AddressType.regex and _core_regex, English.                             *)
(***************************************************************************)
AddressTypes == {"Integer", "Talmud", "Perek", "Mishnah", "Aliyah"}

Space == {" ", "\t", "\n", "\r", "\f", "VT"}       \* \s ("VT": vertical tab)

\* section_patterns["en"] of the address class
section_patterns_en(atype) ==
    IF atype = "Perek"
    THEN Some(Cat(<<Alt(<<Word(<<"C", "h", "a", "p", "t", "e", "r">>),
                          Word(<<"c", "h", "a", "p", "t", "e", "r">>),
                          Word(<<"P", "e", "r", "e", "k">>),
                          Word(<<"p", "e", "r", "e", "k">>)>>),
                    Star(Class(Space))>>))
    ELSE None

\* a faulty _core_regex, for comparison: \d in place of \d+
_core_regex_en_one_digit(atype, group_id) ==
    IF atype = "Talmud"
    THEN Group(group_id, Cat(<<Class(Digits), Opt(Class({"a", "b"}))>>))
    ELSE Group(group_id, Class(Digits))

\* _core_regex("en", group_id): group_id = "" stands for None
_core_regex_en(atype, group_id) ==
    IF atype = "Talmud"
    THEN Group(group_id, Cat(<<Plus(Class(Digits)), Opt(Class({"a", "b"}))>>))
    ELSE Group(group_id, Plus(Class(Digits)))

\* AddressType.regex("en", group_id, strict=...)
regex_en(atype, group_id, strict) ==
    IF section_patterns_en(atype) # None
    THEN Cat(<<IF strict THEN section_patterns_en(atype)[1]
               ELSE Opt(section_patterns_en(atype)[1]),
               _core_regex_en(atype, group_id)>>)
    ELSE _core_regex_en(atype, group_id)

\* AddressType.stop_parsing(lang)
stop_parsing(atype, lang) == atype = "Talmud" /\ lang = "he"

(***************************************************************************)
(* NumberedTitledTreeNode.address_regex and full_regex, English.           *)
(***************************************************************************)
Delimiters == {",", ".", ":", " ", "\r", "\n"}
after_title_delimiter_re == Plus(Class(Delimiters))       \* [,.: \r\n]+

GroupName(i, for_js) ==
    IF for_js THEN "" ELSE IF i = 0 THEN "a0" ELSE IF i = 1 THEN "a1" ELSE "a2"

\* the fragment of level i > 0: "(" + delimiter + regex + ")" and "?"
LevelStrict(atypes, i, for_js, strict) ==
    Group("", Cat(<<after_title_delimiter_re,
                    regex_en(atypes[i + 1], GroupName(i, for_js), strict)>>))

Level(atypes, i, for_js, strict) ==
    IF strict THEN LevelStrict(atypes, i, for_js, strict)
    ELSE Opt(LevelStrict(atypes, i, for_js, strict))

\* address_regex("en", for_js=..., strict=...) of a node with the given
\* address types and depth
address_regex_en(atypes, depth, for_js, strict) ==
    LET first == regex_en(atypes[1], GroupName(0, for_js), strict)
    IN  IF stop_parsing(atypes[1], "en") THEN first
        ELSE Cat(<<first>> \o
                 [k \in 1 .. depth - 1 |-> Level(atypes, k, for_js, strict)])

\* the trailing lookahead of full_regex
BoundaryJs == Look(Alt(<<Class({".", ",", ";", "?", "!", " ", "}", ")", "<"}), Eol>>))

Boundary(for_js) ==
    IF for_js THEN BoundaryJs ELSE Look(Alt(<<NotClass(WordChars), Eol>>))

\* regex.escape(title) + after_title_delimiter_re
TitlePart(title) == Cat(<<Word(title), after_title_delimiter_re>>)

\* full_regex(title, "en", anchored, for_js=..., strict=...)
full_regex_en(atypes, depth, title, anchored, for_js, strict) ==
    LET addr == address_regex_en(atypes, depth, for_js, strict)
    IN  Cat((IF anchored THEN <<Bol>> ELSE << >>) \o
            << TitlePart(title),
               Alt(<<addr,
                     Cat(<<Class({"[", "(", "{"}), addr, Class({"]", ")", "}"})>>)>>),
               Boundary(for_js) >>)

(***************************************************************************)
(* Citation matching as a state machine: a numbered node, a title and a    *)
(* text arrive; full_regex(title, "en", strict=...) is compiled and        *)
(* matched against the text.                                               *)
(*                                                                         *)
(* A text is  title d1 open n [d2 m] close tail : delimiter runs d1 and d2,*)
(* brackets open and close, numerals n and m, and whatever follows; every  *)
(* piece but n may be empty.  `free` texts are the title followed by any   *)
(* short string.                                                           *)
(***************************************************************************)
MaxDigits == 2
MaxRest == 4

RegexTitles == {<<"G", "n">>}
NodeShapes == {<<"Integer", "Integer">>}

RECURSIVE Repeat(_, _)
Repeat(c, n) == IF n = 0 THEN << >> ELSE <<c>> \o Repeat(c, n - 1)

DelimRuns == {<<d>> : d \in Delimiters} \cup {<<",", " ">>}
Brackets ==
    {<<o, c>> : o \in {<< >>}, c \in {<< >>, <<")">>}}
      \cup {<<o, c>> : o \in {<<"(">>, <<"[">>, <<"{">>}, c \in {<<")">>}}
      \cup {<< <<"(">>, << >> >>, << <<"[">>, <<"]">> >>, << <<"{">>, <<"}">> >>}
Tails == {<< >>, <<"x">>, <<"_">>, <<" ">>, <<";">>, <<":">>, <<"\n">>, <<")">>}
FreeChars == {"1", ":", " ", "(", ")", "x"}

Pieces(d1, open, n, d2, m, close, tail) ==
    [d1 |-> d1, open |-> open, n |-> n, d2 |-> d2, m |-> m,
     close |-> close, tail |-> tail]

PiecesText(title, p) ==
    title \o p.d1 \o p.open \o p.n \o p.d2 \o p.m \o p.close \o p.tail

CitationPieces ==
    {Pieces(d1, b[1], Repeat("1", ln), d2m[1], d2m[2], b[2], tail) :
        d1 \in DelimRuns \cup {<< >>}, b \in Brackets, ln \in 1 .. MaxDigits,
        d2m \in {<< << >>, << >> >>}
                  \cup {<<d2, Repeat("2", lm)>> : d2 \in DelimRuns,
                                                   lm \in 1 .. MaxDigits},
        tail \in Tails}

FreePieces ==
    {Pieces(<< >>, << >>, << >>, << >>, << >>, << >>, rest) :
        rest \in StringsUpTo(FreeChars, MaxRest)}

InitRegex ==
    /\ titles = << >>
    /\ _primary_title = [l \in Langs |-> None]
    /\ last = Call("init", "", "en", FALSE, FALSE, None, FALSE, "None")
    /\ objects = << >>
    /\ threads = << >>
    /\ call \in
         {[op |-> "full_regex", done |-> FALSE, atypes |-> shape,
           title |-> title, strict |-> strict, p |-> p,
           text |-> PiecesText(title, p)]
            : shape \in NodeShapes, title \in RegexTitles, strict \in BOOLEAN,
              p \in CitationPieces \cup FreePieces}

MatchFullRegex ==
    /\ call.op = "full_regex" /\ ~call.done
    /\ call' = [op |-> "full_regex", done |-> TRUE, atypes |-> call.atypes,
                title |-> call.title, strict |-> call.strict, p |-> call.p,
                text |-> call.text,
                res |-> match(full_regex_en(call.atypes, Len(call.atypes),
                                            call.title, TRUE, FALSE,
                                            call.strict),
                              call.text)]
    /\ UNCHANGED <<titles, _primary_title, last, objects, threads>>

NextRegex == MatchFullRegex

SpecRegex == InitRegex /\ [][NextRegex]_vars

\* the call under its default arguments, on a depth-2 Integer node
DefaultIntegerCall ==
    /\ call.op = "full_regex" /\ call.done
    /\ call.atypes = <<"Integer", "Integer">> /\ ~call.strict

\* C7: full_regex(title, "en") of a depth-2 Integer node matches neither a text
\* whose title is directly followed by the number, nor a text whose address
\* n:m is immediately followed by a word character (also not by capturing a
\* shorter prefix of the address).
RegexNeedsDelimiterAndBoundary ==
    DefaultIntegerCall =>
      /\ ( /\ Len(call.text) > Len(call.title)
           /\ call.text[Len(call.title) + 1] \in Digits )
           => ~call.res.matched
      /\ ( /\ call.p.d1 # << >> /\ call.p.open = << >> /\ call.p.close = << >>
           /\ call.p.d2 # << >> /\ call.p.m # << >>
           /\ call.p.tail # << >> /\ call.p.tail[1] \in WordChars \ Digits )
           => ~call.res.matched

\* C8: full_regex(T, "en") of a depth-2 Integer node matches T, a delimiter
\* run, n, a delimiter run and m at the end of the text, capturing a0 = n and
\* a1 = m, and equally when n..m is wrapped in an opening and a closing
\* bracket.
RegexPositiveCoverage ==
    ( /\ DefaultIntegerCall
      /\ call.p.d1 # << >> /\ call.p.d2 # << >> /\ call.p.m # << >>
      /\ call.p.tail = << >>
      /\ (call.p.open = << >>) = (call.p.close = << >>) )
      => /\ call.res.matched
         /\ call.res.end = Len(call.text)
         /\ call.res.caps["a0"] = Some(call.p.n)
         /\ call.res.caps["a1"] = Some(call.p.m)

\* "Gn, [11: 22}" has been matched
RegexPositiveCoverageWitness ==
    /\ DefaultIntegerCall
    /\ call.p.d1 = <<",", " ">> /\ call.p.open = <<"{">> /\ call.p.close = <<"}">>
    /\ call.p.n = <<"1", "1">> /\ call.p.m = <<"2", "2">>
    /\ call.p.d2 = <<":">> /\ call.p.tail = << >>
    /\ call.res.matched /\ call.res.caps["a1"] = Some(<<"2", "2">>)

(***************************************************************************)
(* ArrayMapNode.get_ref_from_sections.  A Python value is a list           *)
(* [k |-> "list", v |-> the items] or a string [k |-> "str", v |-> the     *)
(* characters]; a[i] accepts -len(a) <= i < len(a), counts a negative i    *)
(* from the end, and raises IndexError otherwise; an item of a string is a *)
(* one-character string.                                                   *)
(***************************************************************************)
PyList(items) == [k |-> "list", v |-> items]
PyStr(chars) == [k |-> "str", v |-> chars]

\* a[i]: [raised, ret]
getitem(a, i) ==
    IF i >= Len(a.v) \/ i < -Len(a.v) THEN Raised("IndexError")
    ELSE LET item == a.v[IF i >= 0 THEN i + 1 ELSE Len(a.v) + i + 1]
         IN  Returned(IF a.k = "str" THEN PyStr(<<item>>) ELSE item)

\* reduce(lambda a, i: a[i], indexes, a)
RECURSIVE reduce_getitem(_, _)
reduce_getitem(indexes, a) ==
    IF indexes = << >> THEN Returned(a)
    ELSE LET r == getitem(a, Head(indexes))
         IN  IF r.raised # "" THEN r ELSE reduce_getitem(Tail(indexes), r.ret)

\* ArrayMapNode.get_ref_from_sections(sections) of a node with the given
\* wholeRef and refs
get_ref_from_sections(node, sections) ==
    IF sections = << >> THEN Returned(node.wholeRef)
    ELSE reduce_getitem([k \in DOMAIN sections |-> sections[k] - 1], node.refs)

(***************************************************************************)
(* Alternate-structure leaves as a state machine: a node and an address    *)
(* vector arrive, the reference is looked up.                              *)
(***************************************************************************)
MaxSections == 3
Coordinates == (-3 .. 7) \cup {99}

Ref(a, b) == PyStr(<<"R", a, b>>)

\* a flat five-element map and a jagged map of depth 2
ArrayMapNodes ==
    { [depth |-> 1, wholeRef |-> PyStr(<<"R", "1", "-", "5">>),
       refs |-> PyList(<<Ref("1", "0"), Ref("2", "0"), Ref("3", "0"),
                         Ref("4", "0"), Ref("5", "0")>>)],
      [depth |-> 2, wholeRef |-> PyStr(<<"R", "1", "-", "3">>),
       refs |-> PyList(<<PyList(<<Ref("1", "1"), Ref("1", "2")>>),
                         PyList(<<Ref("2", "1")>>),
                         PyList(<<Ref("3", "1"), Ref("3", "2"), Ref("3", "3")>>)>>)] }

InitArrayMap ==
    /\ titles = << >>
    /\ _primary_title = [l \in Langs |-> None]
    /\ last = Call("init", "", "en", FALSE, FALSE, None, FALSE, "None")
    /\ objects = << >>
    /\ threads = << >>
    /\ call \in
         {[op |-> "get_ref_from_sections", done |-> FALSE, node |-> node,
           sections |-> sections]
            : node \in ArrayMapNodes,
              sections \in StringsUpTo(Coordinates, MaxSections)}

GetRefFromSections ==
    /\ call.op = "get_ref_from_sections" /\ ~call.done
    /\ call' = [op |-> "get_ref_from_sections", done |-> TRUE,
                node |-> call.node, sections |-> call.sections,
                res |-> get_ref_from_sections(call.node, call.sections)]
    /\ UNCHANGED <<titles, _primary_title, last, objects, threads>>

NextArrayMap == GetRefFromSections

SpecArrayMap == InitArrayMap /\ [][NextArrayMap]_vars

\* the address vector lies within the nested sequence `a`: every coordinate
\* s_k is in 1 .. length at level k
RECURSIVE InShape(_, _)
InShape(sections, a) ==
    \/ sections = << >>
    \/ /\ a.k = "list"
       /\ Head(sections) \in 1 .. Len(a.v)
       /\ InShape(Tail(sections), a.v[Head(sections)])

\* refs[s1-1][s2-1]... for a vector within the shape
RECURSIVE RefAt(_, _)
RefAt(sections, a) ==
    IF sections = << >> THEN a ELSE RefAt(Tail(sections), a.v[Head(sections)])

\* C9: get_ref_from_sections returns wholeRef for the empty vector, the
\* entry refs[s1-1][s2-1]... when the vector is no longer than the depth and
\* every coordinate lies in 1 .. length of its level, and fails with an
\* out-of-bounds error for every other vector.
ArrayMapBounds ==
    (call.op = "get_ref_from_sections" /\ call.done) =>
        IF call.sections = << >>
        THEN call.res = Returned(call.node.wholeRef)
        ELSE IF /\ Len(call.sections) <= call.node.depth
                /\ InShape(call.sections, call.node.refs)
        THEN call.res = Returned(RefAt(call.sections, call.node.refs))
        ELSE call.res.raised = "IndexError"

(***************************************************************************)
(* TitledTreeNode.title_dict.  A tree is a record of functions over node   *)
(* names: children (the ordered child list), titles (title_group.titles)   *)
(* and default (the node's default flag).  A Python dict is a function     *)
(* from its keys; title strings are TLA+ strings, "+" is \o.               *)
(***************************************************************************)
title_separators == <<" ", ", ">>

EmptyDict == [k \in {} |-> ""]

\* title_dict[key] = value
DictSet(d, key, value) ==
    [k \in DOMAIN d \cup {key} |-> IF k = key THEN value ELSE d[k]]

\* d.update(e)
DictUpdate(d, e) ==
    [k \in DOMAIN d \cup DOMAIN e |-> IF k \in DOMAIN e THEN e[k] ELSE d[k]]

TextsOf(ts) == [i \in DOMAIN ts |-> ts[i].text]

\* [title["text"] for title in self.get_titles()
\*    if title["lang"] == lang and title.get("presentation") != "alone"]
this_node_titles(ts, lang) ==
    TextsOf(SelectSeq(ts, LAMBDA t : t.lang = lang /\ t.presentation # "alone"))

\* [... if title["lang"] == lang and title.get("presentation") == "alone"
\*         or title.get("presentation") == "both"]
alone_node_titles(ts, lang) ==
    TextsOf(SelectSeq(ts, LAMBDA t : (t.lang = lang /\ t.presentation = "alone")
                                        \/ t.presentation = "both"))

\* [baseName + sep + title for baseName in baselist
\*    for sep in self.title_separators for title in this_node_titles]
CombinedTitles(baselist, these) ==
    LET nt == Len(these)
        ns == Len(title_separators)
    IN  [i \in 1 .. Len(baselist) * ns * nt |->
           baselist[((i - 1) \div (ns * nt)) + 1]
             \o title_separators[(((i - 1) \div nt) % ns) + 1]
             \o these[((i - 1) % nt) + 1]]

\* node_title_list of title_dict: the keys of the node itself
node_title_list(ts, lang, baselist) ==
    (IF baselist # << >> THEN CombinedTitles(baselist, this_node_titles(ts, lang))
     ELSE this_node_titles(ts, lang))
      \o alone_node_titles(ts, lang)

\* a faulty thisnode, for comparison: default children are ignored
ThisNodeSelf(tree, n) == n

\* thisnode after the loop over the children: the last default child, or
\* the node itself

ThisNode(tree, n) ==
    LET kids == tree.children[n]
        defaults == {i \in DOMAIN kids : tree.default[kids[i]]}
    IN  IF defaults = {} THEN n
        ELSE kids[CHOOSE i \in defaults : \A j \in defaults : j <= i]

RECURSIVE title_dict(_, _, _, _), ChildrenDict(_, _, _, _, _, _),
          AssignTitles(_, _, _, _)

\* "for title in node_title_list: title_dict[title] = thisnode"
AssignTitles(d, keys, k, node) ==
    IF k > Len(keys) THEN d
    ELSE AssignTitles(DictSet(d, keys[k], node), keys, k + 1, node)

\* "for child in self.children: ... title_dict.update(child.title_dict(...))"
ChildrenDict(tree, kids, k, lang, list, d) ==
    IF k > Len(kids) THEN d
    ELSE ChildrenDict(tree, kids, k + 1, lang, list,
                      IF tree.default[kids[k]] THEN d
                      ELSE DictUpdate(d, title_dict(tree, kids[k], lang, list)))

\* TitledTreeNode.title_dict(lang, baselist) of node n
title_dict(tree, n, lang, baselist) ==
    LET list == node_title_list(tree.titles[n], lang, baselist)
    IN  AssignTitles(ChildrenDict(tree, tree.children[n], 1, lang, list, EmptyDict),
                     list, 1, ThisNode(tree, n))

(***************************************************************************)
(* Title lookup as a state machine: a schema tree, a language and the      *)
(* incoming title prefixes arrive; title_dict is computed for node "P".    *)
(*                                                                         *)
(* The trees: P with any arrangement of a default child D and a titled     *)
(* child C; D may itself have a titled child E.  Siblings hold at most one *)
(* default node (validate, line 573).                                      *)
(***************************************************************************)
MaxPrefixes == 2

TreeNodes == {"P", "D", "C", "E"}
PrefixTexts == {"R", "R, Q"}

T(text, lang, presentation) == TitleRecord(text, lang, FALSE, presentation)

TitlesP ==
    { <<T("P", "en", "combined")>>,
      <<T("P", "en", "combined"), T("Pa", "en", "alone")>>,
      <<T("P", "en", "both")>>,
      <<T("P", "en", "combined"), T("Ph", "he", "both")>>,
      <<T("Ph", "he", "combined"), T("Pa", "he", "alone")>>,
      << >> }
TitlesC ==
    { <<T("C", "en", "combined")>>,
      <<T("C", "en", "both"), T("Ch", "he", "combined")>>,
      <<T("P", "en", "alone")>>,
      <<T("C", "en", "alone"), T("Ch", "he", "both")>> }
TitlesD == { << >>, <<T("D", "en", "both")>> }
ChildrenP == { << >>, <<"D">>, <<"C">>, <<"D", "C">>, <<"C", "D">> }
ChildrenD == { << >>, <<"E">> }

\* the lists of incoming prefixes, at most n long
RECURSIVE PrefixLists(_)
PrefixLists(n) ==
    IF n = 0 THEN {<< >>}
    ELSE LET shorter == PrefixLists(n - 1)
         IN  shorter \cup
             {Append(b, x) : b \in {c \in shorter : Len(c) = n - 1},
                             x \in PrefixTexts}

SchemaTrees ==
    { [children |-> [n \in TreeNodes |->
                        IF n = "P" THEN kp ELSE IF n = "D" THEN kd ELSE << >>],
       titles |-> [n \in TreeNodes |->
                        IF n = "P" THEN tp ELSE IF n = "C" THEN tc
                        ELSE IF n = "D" THEN td ELSE <<T("E", "en", "both")>>],
       default |-> [n \in TreeNodes |-> n = "D"]]
        : kp \in ChildrenP, kd \in ChildrenD, tp \in TitlesP, tc \in TitlesC,
          td \in TitlesD }

InitTitleDict ==
    /\ titles = << >>
    /\ _primary_title = [l \in Langs |-> None]
    /\ last = Call("init", "", "en", FALSE, FALSE, None, FALSE, "None")
    /\ objects = << >>
    /\ threads = << >>
    /\ call \in
         {[op |-> "title_dict", done |-> FALSE, tree |-> tree, lang |-> lang,
           baselist |-> baselist]
            : tree \in SchemaTrees, lang \in Langs,
              baselist \in PrefixLists(MaxPrefixes)}

TitleDict ==
    /\ call.op = "title_dict" /\ ~call.done
    /\ call' = [op |-> "title_dict", done |-> TRUE, tree |-> call.tree,
                lang |-> call.lang, baselist |-> call.baselist,
                res |-> title_dict(call.tree, "P", call.lang, call.baselist)]
    /\ UNCHANGED <<titles, _primary_title, last, objects, threads>>

NextTitleDict == TitleDict

SpecTitleDict == InitTitleDict /\ [][NextTitleDict]_vars

\* the elements of a list
Range(s) == {s[i] : i \in DOMAIN s}

\* the tree without the default child of P
WithoutDefault(tree) ==
    [tree EXCEPT !.children["P"] = SelectSeq(@, LAMBDA c : ~tree.default[c])]

\* C10: when P has a default child D, every key that title_dict computes for
\* P itself (its titles, combined with the incoming prefixes) resolves to D,
\* and D adds no key: the keys are those of the same tree without D, and
\* every other key resolves as it does there.
DefaultCascades ==
    ( /\ call.op = "title_dict" /\ call.done
      /\ "D" \in Range(call.tree.children["P"]) )
      => LET own == Range(node_title_list(call.tree.titles["P"], call.lang,
                                          call.baselist))
             plain == title_dict(WithoutDefault(call.tree), "P", call.lang,
                                 call.baselist)
         IN  /\ \A k \in own : k \in DOMAIN call.res /\ call.res[k] = "D"
             /\ DOMAIN call.res = DOMAIN plain
             /\ \A k \in DOMAIN call.res \ own : call.res[k] = plain[k]
             /\ \A k \in DOMAIN call.res : call.res[k] \notin {"E"}

\* P, reached as "R P" and "R, P", has default child D with its own title and
\* a child E, before a titled child C
DefaultCascadesWitness ==
    /\ call.op = "title_dict" /\ call.done
    /\ call.tree.children["P"] = <<"D", "C">>
    /\ call.tree.children["D"] = <<"E">>
    /\ call.tree.titles["D"] # << >>
    /\ call.baselist = <<"R">> /\ call.lang = "en"
    /\ "R P" \in DOMAIN call.res /\ call.res["R P"] = "D"
    /\ "R, P" \in DOMAIN call.res /\ call.res["R, P"] = "D"
    /\ "R P C" \in DOMAIN call.res /\ call.res["R P C"] = "C"

(***************************************************************************)
(* C11: Talmud maximum length.  toNumber("en", s) fails with InputError    *)
(* whenever s is not digits optionally followed by a or b, and whenever    *)
(* the daf parsed from s exceeds the declared maximum; otherwise it        *)
(* returns 2*daf-1 for amud a or no suffix and 2*daf for amud b.           *)
(***************************************************************************)
DafDigits(s) ==
    IF s # << >> /\ s[Len(s)] \in {"a", "b"} THEN SubSeq(s, 1, Len(s) - 1) ELSE s

DafString(s) ==
    /\ DafDigits(s) # << >>
    /\ \A k \in 1 .. Len(DafDigits(s)) : DafDigits(s)[k] \in Digits

\* C11: a malformed component or a daf beyond the declared maximum raises
\* InputError; a well-formed one within the maximum gives 2*daf-1 or 2*daf
TalmudMaxLength ==
    (call.op = "toNumber" /\ call.done) =>
        IF ~DafString(call.s) THEN call.res = Raised("InputError")
        ELSE LET daf == DigitsToNat(DafDigits(call.s))
             IN  IF ~WithinLength(daf, call.length)
                 THEN call.res = Raised("InputError")
                 ELSE call.res = Returned(IF call.s[Len(call.s)] = "b"
                                          THEN 2 * daf ELSE 2 * daf - 1)

\* the part of C11 that the code does satisfy: well-formed components
TalmudMaxLengthWellFormed ==
    (call.op = "toNumber" /\ call.done /\ DafString(call.s)) => TalmudMaxLength

(***************************************************************************)
(* Schema trees built from their serialized form.                          *)
(*                                                                         *)
(* A serialized node is a dict; a key that is missing holds None here.     *)
(* The objects built live in a heap: a function from object identities     *)
(* (the path of child positions from the object first built) to the        *)
(* object's attributes.  An attribute that does not exist holds None too;  *)
(* where the code tells a missing attribute from one that is None (a plain *)
(* "self.key"), the class decides (HasKeyAttr).                            *)
(***************************************************************************)
TreeClasses ==
    {"TreeNode", "TitledTreeNode", "NumberedTitledTreeNode", "ArrayMapNode",
     "SchemaNode", "JaggedArrayNode", "StringNode"}
TitledClasses == TreeClasses \ {"TreeNode"}
NumberedClasses ==
    {"NumberedTitledTreeNode", "ArrayMapNode", "JaggedArrayNode", "StringNode"}
SchemaClasses == {"SchemaNode", "JaggedArrayNode", "StringNode"}

\* other names bound in the module's globals(): a class that is no node, an
\* address class, the function deserialize_tree itself, an imported module
OtherGlobals == {"TitleGroup", "AddressInteger", "deserialize_tree", "copy"}
GlobalNames == TreeClasses \cup OtherGlobals

\* globals()["Address" + atype] exists: the five address classes, and
\* "AddressType" itself for atype = "Type"
AddressClassNames == AddressTypes \cup {"Type"}

Serial(nodeType, nodes, key, ts, default, depth, addressTypes, sectionNames, lengths, refs) ==
    [nodeType |-> nodeType, nodes |-> nodes, key |-> key, titles |-> ts,
     default |-> default, depth |-> depth, addressTypes |-> addressTypes,
     sectionNames |-> sectionNames, lengths |-> lengths, refs |-> refs]

\* bool(x) of an optional list, of an optional string
Truthy(x) == x # None /\ x[1] # << >>
TruthyStr(x) == x # None /\ x[1] # ""

EmptyHeap == << >>
Built(heap) == [raised |-> "", heap |-> heap]
Failed(e) == [raised |-> e, heap |-> EmptyHeap]

\* TreeNode.append(node): self.children.append(node); node.parent = self
append(heap, self, node) ==
    [o \in DOMAIN heap |->
        IF o = self /\ o = node
        THEN [heap[o] EXCEPT !.children = Append(@, node), !.parent = Some(self)]
        ELSE IF o = self THEN [heap[o] EXCEPT !.children = Append(@, node)]
        ELSE IF o = node THEN [heap[o] EXCEPT !.parent = Some(self)]
        ELSE heap[o]]

\* NumberedTitledTreeNode._init_address_classes:
\* [raised, _addressTypes |-> the address objects (class, order, length)]
_init_address_classes(addressTypes, lengths) ==
    LET atypes == IF addressTypes = None THEN << >> ELSE addressTypes[1]
    IN  IF \E i \in DOMAIN atypes : atypes[i] \notin AddressClassNames
        THEN [raised |-> "IndexSchemaError", _addressTypes |-> << >>]
        ELSE [raised |-> "",
              _addressTypes |->
                [i \in DOMAIN atypes |->
                    [cls |-> atypes[i], order |-> i - 1,
                     length |-> IF i = 1 /\ Truthy(lengths)
                                THEN Some(lengths[1][1]) ELSE None]]]

\* _init_defaults of the class, then self.__dict__.update(serial), then the
\* title list moved into the title group; _primary_title is the cache of
\* the node's title group
NewObject(cls, serial) ==
    [cls |-> cls, parent |-> None, children |-> << >>,
     default |-> IF serial.default # None THEN serial.default
                 ELSE IF cls \in TitledClasses THEN Some(FALSE) ELSE None,
     key |-> serial.key,
     titles |-> IF cls \in TitledClasses /\ Truthy(serial.titles)
                THEN serial.titles[1] ELSE << >>,
     depth |-> serial.depth, addressTypes |-> serial.addressTypes,
     sectionNames |-> serial.sectionNames, lengths |-> serial.lengths,
     refs |-> serial.refs, _addressTypes |-> << >>,
     _primary_title |-> [l \in Langs |-> None],
     _full_title |-> [l \in Langs |-> None],
     _full_titles |-> [l \in Langs |-> None],
     _address |-> << >>]

RECURSIVE deserialize_tree(_, _, _)
RECURSIVE Construct(_, _, _, _)
RECURSIVE AppendNodes(_, _, _, _, _)

\* TreeNode.__init__, lines 230-232:
\* for node in self.nodes: self.append(deserialize_tree(node, **kwargs))
AppendNodes(heap, self, nodes, k, kwargs) ==
    IF k > Len(nodes) THEN Built(heap)
    ELSE LET child == Append(self, k)
             sub == deserialize_tree(nodes[k], child, kwargs)
         IN  IF sub.raised # "" THEN sub
             ELSE AppendNodes(append(sub.heap @@ heap, self, child),
                              self, nodes, k + 1, kwargs)

\* klass(serial, **kwargs) for a name bound in globals()
Construct(klass, serial, self, kwargs) ==
    IF klass = "deserialize_tree"
    THEN Failed("RuntimeError")      \* calls itself on the same dict for ever
    ELSE IF klass = "copy"
    THEN Failed("TypeError")         \* a module is not callable
    ELSE IF klass \notin TreeClasses
    THEN IF kwargs.struct_class # None
         THEN Failed("TypeError")    \* unexpected keyword argument
         ELSE Built(self :> NewObject(klass, serial))
    ELSE
    LET fresh == self :> NewObject(klass, serial)
        grown == IF serial.nodes = None THEN Built(fresh)
                 ELSE AppendNodes(fresh, self, serial.nodes[1], 1, kwargs)
        classes == _init_address_classes(serial.addressTypes, serial.lengths)
    IN  IF grown.raised # "" THEN grown
        ELSE IF klass \notin NumberedClasses THEN grown
        ELSE IF classes.raised # "" THEN Failed(classes.raised)
        ELSE Built([grown.heap EXCEPT ![self] =
                [@ EXCEPT !._addressTypes = classes._addressTypes,
                          !.depth = IF klass = "StringNode" THEN Some(0) ELSE @,
                          !.addressTypes =
                              IF klass = "StringNode" THEN Some(<< >>) ELSE @,
                          !.sectionNames =
                              IF klass = "StringNode" THEN Some(<< >>) ELSE @]])

\* deserialize_tree(serial, **kwargs); kwargs is [struct_class |-> None or
\* Some(class name)]
deserialize_tree(serial, self, kwargs) ==
    LET typed == serial.nodeType # None /\ serial.nodeType[1] # ""
    IN  IF typed /\ serial.nodeType[1] \notin GlobalNames
        THEN Failed("IndexSchemaError")
        ELSE IF Truthy(serial.nodes)
        THEN Construct(IF typed THEN serial.nodeType[1]
                       ELSE IF kwargs.struct_class # None
                            THEN kwargs.struct_class[1] ELSE "SchemaNode",
                       serial, self, kwargs)
        ELSE IF typed
        THEN Construct(serial.nodeType[1], serial, self, kwargs)
        ELSE Failed("IndexSchemaError")

(***************************************************************************)
(* validate(): "" if the subtree of `self` is valid, else the name of the  *)
(* exception raised.  The title caches are empty when validate is called   *)
(* on a tree just built, and validate reads the primary title only.        *)
(***************************************************************************)
required_param_keys(cls) ==
    IF cls = "ArrayMapNode"
    THEN {"depth", "addressTypes", "sectionNames", "refs"}
    ELSE IF cls \in NumberedClasses
    THEN {"depth", "addressTypes", "sectionNames"}
    ELSE {}

\* a plain "self.key" finds the attribute
HasKeyAttr(o) == o.cls \in SchemaClasses \/ o.key # None

\* the characters of a title text
TitleChars(text) ==
    IF text = "" THEN << >>
    ELSE IF text = "A-B" THEN <<"A", "-", "B">>
    ELSE <<text>>

RECURSIVE validate(_, _)
RECURSIVE ValidateChildren(_, _, _)

\* TreeNode.validate, lines 243-244
ValidateChildren(heap, children, k) ==
    IF k > Len(children) THEN ""
    ELSE LET v == validate(heap, children[k])
         IN  IF v # "" THEN v ELSE ValidateChildren(heap, children, k + 1)

\* TreeNode.validate
TreeValidate(heap, self) ==
    IF \E p \in required_param_keys(heap[self].cls) : heap[self][p] = None
    THEN "IndexSchemaError"
    ELSE ValidateChildren(heap, heap[self].children, 1)

\* TitledTreeNode.validate, lines 561-577 (no shared title)
TitledValidate(heap, self) ==
    LET o == heap[self]
        primary == primary_title(o.titles, [l \in Langs |-> None], "en").ret
        default == o.default = Some(TRUE)
        kids == o.children
    IN  IF \E k \in DOMAIN TitleChars(primary) : TitleChars(primary)[k] = "-"
        THEN "InputError"
        ELSE IF ~default /\ o.titles = << >> THEN "IndexSchemaError"
        ELSE IF default /\ o.titles # << >> THEN "IndexSchemaError"
        ELSE IF ~default /\ primary = "" THEN "IndexSchemaError"
        ELSE IF kids = << >> THEN ""
        ELSE IF \E k \in DOMAIN kids : heap[kids[k]].default = None
        THEN "AttributeError"                          \* c.default
        ELSE IF Cardinality({k \in DOMAIN kids :
                                heap[kids[k]].default = Some(TRUE)}) > 1
        THEN IF HasKeyAttr(o) THEN "IndexSchemaError"
             ELSE "AttributeError"                     \* self.key in the message
        ELSE ""

\* NumberedTitledTreeNode.validate, lines 649-651
NumberedValidate(heap, self) ==
    LET o == heap[self]
    IN  IF Len(o.addressTypes[1]) # o.depth[1] \/ Len(o.sectionNames[1]) # o.depth[1]
        THEN IF HasKeyAttr(o) THEN "IndexSchemaError"
             ELSE "AttributeError"                     \* self.key in the message
        ELSE ""

\* SchemaNode.validate, lines 806-810
SchemaValidate(heap, self) ==
    LET o == heap[self]
    IN  IF ~TruthyStr(o.key) THEN "IndexSchemaError"
        ELSE IF o.default = Some(TRUE) /\ o.key # Some("default")
        THEN "IndexSchemaError"
        ELSE ""

\* self.validate(); JaggedArrayNode.validate runs SchemaNode.validate, whose
\* super() chain passes through NumberedTitledTreeNode.validate, and then
\* NumberedTitledTreeNode.validate once more (which repeats checks that
\* have passed)
validate(heap, self) ==
    LET cls == heap[self].cls
        tree == TreeValidate(heap, self)
    IN  IF cls \notin TreeClasses THEN "AttributeError"   \* no validate method
        ELSE IF tree # "" THEN tree
        ELSE IF cls = "TreeNode" THEN ""
        ELSE IF TitledValidate(heap, self) # "" THEN TitledValidate(heap, self)
        ELSE IF cls \in NumberedClasses /\ NumberedValidate(heap, self) # ""
        THEN NumberedValidate(heap, self)
        ELSE IF cls \in SchemaClasses THEN SchemaValidate(heap, self)
        ELSE ""

(***************************************************************************)
(* Building and validating schema trees as a state machine: a serialized   *)
(* tree arrives and is deserialized (or a numbered node is constructed     *)
(* from a dict directly); a tree that was built is then validated.         *)
(***************************************************************************)
MaxNodes == 2          \* children per serialized node
MaxDepth == 2          \* declared depth, and length of the parameter lists

PrimaryTitles(text) == Some(<<TitleRecord(text, "en", TRUE, "combined")>>)

\* a jagged array leaf of depth 1
JA(key, text) ==
    Serial(Some("JaggedArrayNode"), None, Some(key), PrimaryTitles(text), None,
           Some(1), Some(<<"Integer">>), Some(<<"Chapter">>), None, None)

ChildSerials ==
    { JA("k1", "A"), JA("k2", "B"), JA("k1", "B"),
      \* a default leaf
      Serial(Some("JaggedArrayNode"), None, Some("default"), None, Some(TRUE),
             Some(1), Some(<<"Integer">>), Some(<<"Chapter">>), None, None),
      \* a structure node with one leaf
      Serial(None, Some(<<JA("k2", "B")>>), Some("k3"), PrimaryTitles("C"), None,
             None, None, None, None, None),
      \* a dict with neither nodeType nor nodes
      Serial(None, None, Some("k4"), PrimaryTitles("C"), None,
             None, None, None, None, None),
      \* a dict whose nodeType names a class that is no node
      Serial(Some("TitleGroup"), None, Some("k5"), None, None,
             None, None, None, None, None) }

RECURSIVE ListsUpTo(_, _)
ListsUpTo(S, n) ==
    IF n = 0 THEN {<< >>}
    ELSE LET shorter == ListsUpTo(S, n - 1)
         IN  shorter \cup
             {Append(l, x) : l \in {m \in shorter : Len(m) = n - 1}, x \in S}

NodeTypeNames ==
    {None, Some(""), Some("Bogus")} \cup {Some(name) : name \in GlobalNames}

\* the serialized trees handed to deserialize_tree
TreeSerials ==
    { Serial(nodeType, nodes, Some("root"), PrimaryTitles("R"), None,
             Some(1), Some(<<"Integer">>), Some(<<"Chapter">>), None,
             Some(<<"Genesis 1">>))
        : nodeType \in NodeTypeNames,
          nodes \in {None} \cup {Some(l) : l \in ListsUpTo(ChildSerials, MaxNodes)} }

\* the dicts handed to the constructor of a numbered node
NumberedSerials ==
    { Serial(None, None, key, ts, None, depth, addressTypes, sectionNames,
             lengths, Some(<<"Genesis 1">>))
        : key \in {None, Some("k")},
          ts \in {None, PrimaryTitles("A"), PrimaryTitles("A-B")},
          depth \in {None} \cup {Some(d) : d \in 0 .. MaxDepth},
          addressTypes \in {None, Some(<<"Bogus">>)} \cup
              {Some(l) : l \in ListsUpTo({"Integer", "Talmud"}, MaxDepth)},
          sectionNames \in {None} \cup
              {Some(l) : l \in ListsUpTo({"Section"}, MaxDepth)},
          lengths \in {None, Some(<< >>), Some(<<12>>)} }

Kwargs == {[struct_class |-> None], [struct_class |-> Some("TitledTreeNode")]}

InitSchema ==
    /\ titles = << >>
    /\ _primary_title = [l \in Langs |-> None]
    /\ last = Call("init", "", "en", FALSE, FALSE, None, FALSE, "None")
    /\ objects = << >>
    /\ threads = << >>
    /\ call \in
         {[op |-> "deserialize_tree", done |-> FALSE, validated |-> FALSE,
           klass |-> "", serial |-> serial, kwargs |-> kwargs]
            : serial \in TreeSerials, kwargs \in Kwargs}
         \cup
         {[op |-> "construct", done |-> FALSE, validated |-> FALSE,
           klass |-> klass, serial |-> serial,
           kwargs |-> [struct_class |-> None]]
            : klass \in NumberedClasses, serial \in NumberedSerials}

\* root = deserialize_tree(serial, **kwargs)
DeserializeTree ==
    /\ call.op = "deserialize_tree" /\ ~call.done
    /\ call' = [op |-> call.op, done |-> TRUE, validated |-> FALSE,
                klass |-> call.klass, serial |-> call.serial,
                kwargs |-> call.kwargs,
                res |-> deserialize_tree(call.serial, << >>, call.kwargs)]
    /\ UNCHANGED <<titles, _primary_title, last, objects, threads>>

\* root = klass(serial)
NewNode ==
    /\ call.op = "construct" /\ ~call.done
    /\ call' = [op |-> call.op, done |-> TRUE, validated |-> FALSE,
                klass |-> call.klass, serial |-> call.serial,
                kwargs |-> call.kwargs,
                res |-> Construct(call.klass, call.serial, << >>, call.kwargs)]
    /\ UNCHANGED <<titles, _primary_title, last, objects, threads>>

\* root.validate(), on a tree that was built
Validate ==
    /\ call.done /\ ~call.validated /\ call.res.raised = ""
    /\ call' = [op |-> call.op, done |-> TRUE, validated |-> TRUE,
                klass |-> call.klass, serial |-> call.serial,
                kwargs |-> call.kwargs, res |-> call.res,
                valid |-> validate(call.res.heap, << >>)]
    /\ UNCHANGED <<titles, _primary_title, last, objects, threads>>

NextSchema == DeserializeTree \/ NewNode \/ Validate

SpecSchema == InitSchema /\ [][NextSchema]_vars

\* the dict gives a depth and both parameter lists, and they disagree
DepthMismatch(serial) ==
    /\ serial.depth # None
    /\ serial.addressTypes # None /\ serial.sectionNames # None
    /\ \/ Len(serial.addressTypes[1]) # serial.depth[1]
       \/ Len(serial.sectionNames[1]) # serial.depth[1]

\* C12: depth validation.  Constructing a numbered node whose addressTypes
\* or sectionNames list has a length different from its declared depth fails
\* with a schema error.
DepthValidation ==
    (/\ call.op = "construct" /\ call.done
     /\ call.klass # "StringNode"
     /\ DepthMismatch(call.serial))
        => call.res.raised = "IndexSchemaError"

\* what the code does instead: the node is built, and validate() refuses it
DepthValidationAtValidate ==
    (/\ call.op = "construct" /\ call.validated
     /\ call.klass # "StringNode"
     /\ DepthMismatch(call.serial))
        => call.valid # ""

\* the kind and the children claimed for a dict without nodeType: deserialize
\* every entry of nodes on its own, in order
EntriesBuilt(serial, kwargs) ==
    \A k \in DOMAIN serial.nodes[1] :
        deserialize_tree(serial.nodes[1][k], <<k>>, kwargs).raised = ""

ChildrenInOrder(heap, serial, kwargs) ==
    /\ heap[<< >>].children = [k \in DOMAIN serial.nodes[1] |-> <<k>>]
    /\ \A k \in DOMAIN serial.nodes[1] :
          LET sub == deserialize_tree(serial.nodes[1][k], <<k>>, kwargs).heap
          IN  /\ heap[<<k>>] = [sub[<<k>>] EXCEPT !.parent = Some(<< >>)]
              /\ \A o \in DOMAIN sub : o # <<k>> => heap[o] = sub[o]

\* C13: deserialization dispatch.  (a) a nodeType that names no node kind
\* fails with a schema error; (b) a nodeType that names a node kind yields a
\* node of that kind; (c) no nodeType but a nodes field yields the generic
\* structural kind (SchemaNode unless struct_class is given) whose children
\* are the deserialized entries of nodes, in order, each with its parent set
\* to the new node; (d) neither nodeType nor nodes fails with a schema error.
DeserializationDispatch ==
    (call.op = "deserialize_tree" /\ call.done) =>
        LET serial == call.serial
            res == call.res
        IN  IF serial.nodeType # None /\ serial.nodeType[1] \notin TreeClasses
            THEN res.raised = "IndexSchemaError"
            ELSE IF serial.nodeType # None
            THEN res.raised = "" => res.heap[<< >>].cls = serial.nodeType[1]
            ELSE IF serial.nodes # None
            THEN EntriesBuilt(serial, call.kwargs) =>
                    /\ res.raised = ""
                    /\ res.heap[<< >>].cls =
                          (IF call.kwargs.struct_class # None
                           THEN call.kwargs.struct_class[1] ELSE "SchemaNode")
                    /\ ChildrenInOrder(res.heap, serial, call.kwargs)
            ELSE res.raised = "IndexSchemaError"

\* the same, for the dicts whose nodeType is missing, a node class or a
\* name that globals() does not bind, and whose nodes list is not empty
DeserializationDispatchNodeKinds ==
    (/\ call.op = "deserialize_tree" /\ call.done
     /\ call.serial.nodeType # None =>
            call.serial.nodeType[1] \in TreeClasses \cup {"Bogus"}
     /\ call.serial.nodes # Some(<< >>))
        => DeserializationDispatch

(***************************************************************************)
(* Trees assembled by hand: a client holds a few schema nodes and attaches *)
(* them to each other with append / append_to, and asks for roots and      *)
(* addresses.                                                              *)
(***************************************************************************)
NodeIds == {"a", "b", "c"}
MaxAppends == 3        \* append calls made in all

\* the recursion limit of the interpreter stands for "more frames than there
\* are objects": only a cycle of parents gets there
RecursionLimit(h) == Cardinality(DOMAIN h)

\* TreeNode.is_root
is_root(h, self) == h[self].parent = None

\* TreeNode.root: [raised, ret]
RECURSIVE root(_, _, _)
root(h, self, frames) ==
    IF is_root(h, self) THEN [raised |-> "", ret |-> self]
    ELSE IF frames = 0 THEN [raised |-> "RuntimeError", ret |-> self]
    ELSE root(h, h[self].parent[1], frames - 1)

\* SchemaNode.address: [objects |-> the heap afterwards, raised, ret]
RECURSIVE address(_, _, _)
address(h, self, frames) ==
    IF h[self]._address # << >>
    THEN [objects |-> h, raised |-> "", ret |-> h[self]._address]
    ELSE IF h[self].parent = None
    THEN [objects |-> [h EXCEPT ![self]._address = <<h[self].key>>],
          raised |-> "", ret |-> <<h[self].key>>]
    ELSE IF frames = 0
    THEN [objects |-> h, raised |-> "RuntimeError", ret |-> << >>]
    ELSE LET up == address(h, h[self].parent[1], frames - 1)
         IN  IF up.raised # "" THEN [objects |-> h, raised |-> up.raised, ret |-> << >>]
             ELSE [objects |-> [up.objects EXCEPT ![self]._address =
                                    Append(up.ret, h[self].key)],
                   raised |-> "", ret |-> Append(up.ret, h[self].key)]

\* SchemaNode(): a node with a key and a primary English title
NewSchemaNode(key) ==
    NewObject("SchemaNode",
              Serial(None, None, Some(key), PrimaryTitles(key), None,
                     None, None, None, None, None))

Appended(h) ==
    LET RECURSIVE Sum(_)
        Sum(S) == IF S = {} THEN 0
                  ELSE LET o == CHOOSE x \in S : TRUE
                       IN  Len(h[o].children) + Sum(S \ {o})
    IN  Sum(DOMAIN h)

InitTree ==
    /\ titles = << >>
    /\ _primary_title = [l \in Langs |-> None]
    /\ last = Call("init", "", "en", FALSE, FALSE, None, FALSE, "None")
    /\ call = [op |-> "none"]
    /\ objects = [o \in NodeIds |-> NewSchemaNode(o)]
    /\ threads = << >>

\* self.append(node)
TreeAppend(self, node) ==
    /\ Appended(objects) < MaxAppends
    /\ objects' = append(objects, self, node)
    /\ call' = [op |-> "append", self |-> self, node |-> node]
    /\ UNCHANGED <<titles, _primary_title, last, threads>>

\* self.append_to(node): node.append(self)
TreeAppendTo(self, node) ==
    /\ Appended(objects) < MaxAppends
    /\ objects' = append(objects, node, self)
    /\ call' = [op |-> "append_to", self |-> self, node |-> node]
    /\ UNCHANGED <<titles, _primary_title, last, threads>>

\* self.root()
TreeRoot(self) ==
    /\ call' = [op |-> "root", self |-> self,
                res |-> root(objects, self, RecursionLimit(objects))]
    /\ UNCHANGED <<titles, _primary_title, last, objects, threads>>

\* self.address()
TreeAddress(self) ==
    LET r == address(objects, self, RecursionLimit(objects))
    IN  /\ objects' = r.objects
        /\ call' = [op |-> "address", self |-> self,
                    res |-> [raised |-> r.raised, ret |-> r.ret]]
        /\ UNCHANGED <<titles, _primary_title, last, threads>>

DoAppend == \E self \in NodeIds, node \in NodeIds : TreeAppend(self, node)
DoAppendTo == \E self \in NodeIds, node \in NodeIds : TreeAppendTo(self, node)
DoRoot == \E self \in NodeIds : TreeRoot(self)
DoAddress == \E self \in NodeIds : TreeAddress(self)

NextTree == DoAppend \/ DoAppendTo \/ DoRoot \/ DoAddress

SpecTree == InitTree /\ [][NextTree]_vars

\* the nodes reached from `self` by following parent at least once, in at
\* most k steps
RECURSIVE Ancestors(_, _, _)
Ancestors(h, self, k) ==
    IF k = 0 \/ h[self].parent = None THEN {}
    ELSE {h[self].parent[1]} \cup Ancestors(h, h[self].parent[1], k - 1)

Occurrences(children, node) ==
    Cardinality({k \in DOMAIN children : children[k] = node})

\* the structure is a forest
IsForest(h) ==
    /\ \A o \in DOMAIN h, c \in DOMAIN h :
          /\ Occurrences(h[o].children, c) <= 1
          /\ Occurrences(h[o].children, c) = 1 <=> h[c].parent = Some(o)
    /\ \A o \in DOMAIN h :
          /\ is_root(h, o) <=> h[o].parent = None
          /\ o \notin Ancestors(h, o, Cardinality(DOMAIN h))
          /\ root(h, o, RecursionLimit(h)).raised = ""

\* C14: tree shape.  After any sequence of append / append_to calls the
\* structure is a forest: a node is in the child list of n, exactly once,
\* iff its parent is n (so it has at most one parent), is_root holds iff
\* the parent is none, and the parent references have no cycle, so that
\* root() terminates.
TreeShape == IsForest(objects)

\* the part of C14 that the code does satisfy: attaching a node that has no
\* parent yet, below a node that is not in its own subtree, keeps a forest
TreeShapeFreshAppend ==
    [][(/\ IsForest(objects)
        /\ call'.op \in {"append", "append_to"}
        /\ LET above == IF call'.op = "append" THEN call'.self ELSE call'.node
               below == IF call'.op = "append" THEN call'.node ELSE call'.self
           IN  /\ objects[below].parent = None
               /\ below \notin {above} \cup Ancestors(objects, above,
                                                      Cardinality(NodeIds)))
         => IsForest(objects')]_vars

\* the keys on the path from the root of `self` down to `self`
RECURSIVE KeyPath(_, _, _)
KeyPath(h, self, k) ==
    IF k = 0 \/ h[self].parent = None THEN <<h[self].key>>
    ELSE Append(KeyPath(h, h[self].parent[1], k - 1), h[self].key)

\* C19: address follows the tree.  After any sequence of append and
\* address() calls, address() of a node is the sequence of keys on the path
\* from the node's current root down to it, whether or not address() was
\* called on the node or its ancestors before they were attached.
AddressFollowsTree ==
    IsForest(objects) =>
        \A o \in DOMAIN objects :
            LET r == address(objects, o, RecursionLimit(objects))
            IN  /\ r.raised = ""
                /\ r.ret = KeyPath(objects, o, Cardinality(DOMAIN objects))

\* what the code does satisfy: a node whose address was never asked for,
\* with ancestors whose address was never asked for, gets its key path
AddressOfFreshNodes ==
    IsForest(objects) =>
        \A o \in DOMAIN objects :
            (\A p \in {o} \cup Ancestors(objects, o, Cardinality(DOMAIN objects)) :
                objects[p]._address = << >>)
              => address(objects, o, RecursionLimit(objects)).ret
                    = KeyPath(objects, o, Cardinality(DOMAIN objects))

\* every object of the heap is a schema node
IsSchemaTree(h) == \A o \in DOMAIN h : h[o].cls \in SchemaClasses

\* SchemaNode.__eq__: self.address() == other.address()
__eq__(h, self, other) ==
    address(h, self, RecursionLimit(h)).ret
        = address(h, other, RecursionLimit(h)).ret

\* C15: sibling key uniqueness.  In a schema tree on which validate()
\* succeeds no two children of a parent have the same key, hence distinct
\* nodes have different addresses and never compare equal.
SiblingKeysUnique ==
    (/\ call.op = "deserialize_tree" /\ call.validated /\ call.valid = ""
     /\ IsSchemaTree(call.res.heap))
        => LET h == call.res.heap
           IN  /\ \A o \in DOMAIN h :
                    \A i \in DOMAIN h[o].children, j \in DOMAIN h[o].children :
                        i # j => h[h[o].children[i]].key # h[h[o].children[j]].key
               /\ \A o \in DOMAIN h, p \in DOMAIN h :
                    o # p => ~__eq__(h, o, p)

\* what holds of every validated schema tree: each node has a key, a
\* default node has the key "default", and a parent has at most one
\* default child
ValidatedKeys ==
    (/\ call.op = "deserialize_tree" /\ call.validated /\ call.valid = ""
     /\ IsSchemaTree(call.res.heap))
        => LET h == call.res.heap
           IN  \A o \in DOMAIN h :
                  /\ TruthyStr(h[o].key)
                  /\ h[o].default = Some(TRUE) => h[o].key = Some("default")
                  /\ Cardinality({k \in DOMAIN h[o].children :
                        h[h[o].children[k]].default = Some(TRUE)}) <= 1

(***************************************************************************)
(* Titles of tree nodes: the memoized reads of TitledTreeNode, and the     *)
(* title edits, which a node hands to its title group.  Each returns       *)
(* [objects |-> the heap afterwards, raised, ret].                         *)
(***************************************************************************)
\* TitledTreeNode.primary_title(lang): self.title_group.primary_title(lang)
node_primary_title(h, self, lang) ==
    LET r == primary_title(h[self].titles, h[self]._primary_title, lang)
    IN  [objects |-> [h EXCEPT ![self]._primary_title = r.cache],
         raised |-> "", ret |-> r.ret]

\* TitledTreeNode.full_title(lang)
RECURSIVE full_title(_, _, _, _)
full_title(h, self, lang, frames) ==
    IF TruthyStr(h[self]._full_title[lang])
    THEN [objects |-> h, raised |-> "", ret |-> h[self]._full_title[lang][1]]
    ELSE IF h[self].parent = None
    THEN LET p == node_primary_title(h, self, lang)
         IN  [objects |-> [p.objects EXCEPT ![self]._full_title[lang] = Some(p.ret)],
              raised |-> "", ret |-> p.ret]
    ELSE IF frames = 0
    THEN [objects |-> h, raised |-> "RuntimeError", ret |-> ""]
    ELSE LET up == full_title(h, h[self].parent[1], lang, frames - 1)
             p == node_primary_title(up.objects, self, lang)
             value == up.ret \o ", " \o p.ret
         IN  IF up.raised # "" THEN [objects |-> h, raised |-> up.raised, ret |-> ""]
             ELSE [objects |-> [p.objects EXCEPT ![self]._full_title[lang] = Some(value)],
                   raised |-> "", ret |-> value]

\* TitledTreeNode.full_titles(lang)
RECURSIVE full_titles(_, _, _, _)
full_titles(h, self, lang, frames) ==
    IF Truthy(h[self]._full_titles[lang])
    THEN [objects |-> h, raised |-> "", ret |-> h[self]._full_titles[lang][1]]
    ELSE IF h[self].parent = None
    THEN LET value == all_titles(h[self].titles, lang)
         IN  [objects |-> [h EXCEPT ![self]._full_titles[lang] = Some(value)],
              raised |-> "", ret |-> value]
    ELSE IF frames = 0
    THEN [objects |-> h, raised |-> "RuntimeError", ret |-> << >>]
    ELSE LET up == full_titles(h, h[self].parent[1], lang, frames - 1)
             value == CombinedTitles(up.ret, all_titles(h[self].titles, lang))
         IN  IF up.raised # "" THEN [objects |-> h, raised |-> up.raised, ret |-> << >>]
             ELSE [objects |-> [up.objects EXCEPT ![self]._full_titles[lang] = Some(value)],
                   raised |-> "", ret |-> value]

\* TitledTreeNode.add_title: self.title_group.add_title(...)
node_add_title(h, self, text, lang, primary, replace_primary, presentation) ==
    LET r == add_title(h[self].titles, h[self]._primary_title, text, lang,
                       primary, replace_primary, presentation)
    IN  [objects |-> [h EXCEPT ![self].titles = r.titles,
                               ![self]._primary_title = r.cache],
         raised |-> IF r.raised THEN "IndexSchemaError" ELSE "", ret |-> r.ret]

\* TitledTreeNode.remove_title: self.title_group.remove_title(text, lang)
node_remove_title(h, self, text, lang) ==
    [objects |-> [h EXCEPT ![self].titles = remove_title(@, text, lang)],
     raised |-> "", ret |-> "self"]

(***************************************************************************)
(* Concurrent readers.  Several threads call the memoizing reads on one    *)
(* tree that nobody edits.  The interpreter switches threads between       *)
(* bytecodes, so a read of a cache, the decision taken on it and the write *)
(* of the cache are separate steps; a dict lookup or store is one step.    *)
(* A thread is [request, stack, ret]: the frames of its calls (the last is *)
(* the running one) and the value returned by its request.  A frame is     *)
(* [fn, self, lang, pc, tmp, got]: pc is the source line about to run,     *)
(* got the value returned by the frame's last call, tmp a local.           *)
(***************************************************************************)
MaxThreads == 2
Threads == 1 .. MaxThreads

Frame(fn, self, lang) ==
    [fn |-> fn, self |-> self, lang |-> lang,
     pc |-> CASE fn = "primary_title" -> 52
              [] fn = "full_title" -> 486
              [] fn = "full_titles" -> 471
              [] fn = "address" -> 902,
     tmp |-> None, got |-> None]

Top(th) == th.stack[Len(th.stack)]

\* the running frame goes on at line pc
Goto(h, th, pc) ==
    [objects |-> h,
     thread |-> [th EXCEPT !.stack[Len(th.stack)].pc = pc]]

\* the running frame calls fn on node `self` and will go on at line pc
Invoke(h, th, fn, self, pc) ==
    [objects |-> h,
     thread |-> [th EXCEPT !.stack =
                    Append([@ EXCEPT ![Len(@)].pc = pc],
                           Frame(fn, self, Top(th).lang))]]

\* the running frame returns value to its caller, or to the client
Return(h, th, value) ==
    [objects |-> h,
     thread |->
        IF Len(th.stack) = 1
        THEN [th EXCEPT !.stack = << >>, !.ret = Some(value)]
        ELSE [th EXCEPT !.stack =
                 [SubSeq(@, 1, Len(@) - 1) EXCEPT ![Len(@) - 1].got = value]]]

\* "not self._primary_title.get(lang)", line 57
NotCached(c) == c = None \/ c = Some("")

\* a faulty primary_title, for comparison: the cache is set to "" before the
\* titles are scanned (a single thread gets the same values from it)
PrimaryTitleStepEager(h, th) ==
    LET f == Top(th)
        o == h[f.self]
        c == o._primary_title[f.lang]
    IN  CASE f.pc = 52 ->
                IF c = None
                THEN Goto([h EXCEPT ![f.self]._primary_title[f.lang] = Some("")],
                          th, 53)
                ELSE Goto(h, th, 57)
          [] f.pc = 53 ->
                Goto(IF PrimaryIdx(o.titles, f.lang) # {}
                     THEN [h EXCEPT ![f.self]._primary_title[f.lang] =
                              Some(FirstPrimary(o.titles, f.lang).text)]
                     ELSE h, th, 57)
          [] f.pc = 57 -> Goto(h, th, IF NotCached(c) THEN 58 ELSE 60)
          [] f.pc = 58 ->
                Goto([h EXCEPT ![f.self]._primary_title[f.lang] = Some("")], th, 60)
          [] f.pc = 60 -> Return(h, th, IF c = None THEN "None" ELSE c[1])

\* one step of TitleGroup.primary_title
PrimaryTitleStep(h, th) ==
    LET f == Top(th)
        o == h[f.self]
        c == o._primary_title[f.lang]
    IN  CASE f.pc = 52 -> Goto(h, th, IF c = None THEN 53 ELSE 57)
          [] f.pc = 53 ->
                Goto(IF PrimaryIdx(o.titles, f.lang) # {}
                     THEN [h EXCEPT ![f.self]._primary_title[f.lang] =
                              Some(FirstPrimary(o.titles, f.lang).text)]
                     ELSE h, th, 57)
          [] f.pc = 57 -> Goto(h, th, IF NotCached(c) THEN 58 ELSE 60)
          [] f.pc = 58 ->
                Goto([h EXCEPT ![f.self]._primary_title[f.lang] = Some("")], th, 60)
          [] f.pc = 60 -> Return(h, th, IF c = None THEN "None" ELSE c[1])

\* one step of TitledTreeNode.full_title
FullTitleStep(h, th) ==
    LET f == Top(th)
        o == h[f.self]
        c == o._full_title[f.lang]
    IN  CASE f.pc = 486 -> Goto(h, th, IF TruthyStr(c) THEN 491 ELSE 487)
          [] f.pc = 487 ->
                IF o.parent # None
                THEN Invoke(h, th, "full_title", o.parent[1], 488)
                ELSE Invoke(h, th, "primary_title", f.self, 490)
          [] f.pc = 488 /\ f.tmp = None ->
                \* the parent's full title is kept, the primary title is asked for
                Invoke(h, [th EXCEPT !.stack[Len(th.stack)].tmp = Some(f.got)],
                       "primary_title", f.self, 488)
          [] f.pc = 488 /\ f.tmp # None ->
                Goto([h EXCEPT ![f.self]._full_title[f.lang] =
                         Some(f.tmp[1] \o ", " \o f.got)], th, 491)
          [] f.pc = 490 ->
                Goto([h EXCEPT ![f.self]._full_title[f.lang] = Some(f.got)], th, 491)
          [] f.pc = 491 -> Return(h, th, c[1])

\* one step of TitledTreeNode.full_titles
FullTitlesStep(h, th) ==
    LET f == Top(th)
        o == h[f.self]
        c == o._full_titles[f.lang]
    IN  CASE f.pc = 471 -> Goto(h, th, IF Truthy(c) THEN 479 ELSE 472)
          [] f.pc = 472 ->
                IF o.parent # None
                THEN Invoke(h, th, "full_titles", o.parent[1], 473)
                ELSE Goto([h EXCEPT ![f.self]._full_titles[f.lang] =
                              Some(all_titles(o.titles, f.lang))], th, 479)
          [] f.pc = 473 ->
                Goto([h EXCEPT ![f.self]._full_titles[f.lang] =
                         Some(CombinedTitles(f.got, all_titles(o.titles, f.lang)))],
                     th, 479)
          [] f.pc = 479 -> Return(h, th, c[1])

\* one step of SchemaNode.address
AddressStep(h, th) ==
    LET f == Top(th)
        o == h[f.self]
    IN  CASE f.pc = 902 -> Goto(h, th, IF o._address = << >> THEN 903 ELSE 908)
          [] f.pc = 903 ->
                IF o.parent # None
                THEN Invoke(h, th, "address", o.parent[1], 904)
                ELSE Goto([h EXCEPT ![f.self]._address = <<o.key>>], th, 908)
          [] f.pc = 904 ->
                Goto([h EXCEPT ![f.self]._address = Append(f.got, o.key)], th, 908)
          [] f.pc = 908 -> Return(h, th, o._address)

ThreadStep(h, th) ==
    CASE Top(th).fn = "primary_title" -> PrimaryTitleStep(h, th)
      [] Top(th).fn = "full_title" -> FullTitleStep(h, th)
      [] Top(th).fn = "full_titles" -> FullTitlesStep(h, th)
      [] Top(th).fn = "address" -> AddressStep(h, th)

\* the same request made by a single thread
Sequential(h, request) ==
    CASE request.fn = "primary_title" ->
            node_primary_title(h, request.self, request.lang)
      [] request.fn = "full_title" ->
            full_title(h, request.self, request.lang, RecursionLimit(h))
      [] request.fn = "full_titles" ->
            full_titles(h, request.self, request.lang, RecursionLimit(h))
      [] request.fn = "address" ->
            [objects |-> address(h, request.self, RecursionLimit(h)).objects,
             raised |-> "",
             ret |-> address(h, request.self, RecursionLimit(h)).ret]

\* the tree that is read: a root R with the child N.  R has a primary and a
\* plain English title and no Hebrew title; N has primary titles in both
\* languages.
ReadNodes == {"R", "N"}

ReadTree ==
    append([o \in ReadNodes |->
              NewObject("SchemaNode",
                  Serial(None, None, Some(o),
                         IF o = "R"
                         THEN Some(<<TitleRecord("R", "en", TRUE, "combined"),
                                     TitleRecord("Ra", "en", FALSE, "combined")>>)
                         ELSE Some(<<TitleRecord("N", "en", TRUE, "combined"),
                                     TitleRecord("Nh", "he", TRUE, "combined")>>),
                         None, None, None, None, None, None))],
           "R", "N")

\* the reads a thread may ask for, numbered
ReadFns == <<"primary_title", "full_title", "full_titles">>
ReadNodeList == <<"R", "N">>
LangList == <<"en", "he">>

Requests ==
    [i \in 1 .. 12 |->
        [fn |-> ReadFns[((i - 1) \div 4) + 1],
         self |-> ReadNodeList[(((i - 1) \div 2) % 2) + 1],
         lang |-> LangList[((i - 1) % 2) + 1]]]
    \o [i \in 1 .. 2 |-> [fn |-> "address", self |-> ReadNodeList[i], lang |-> "en"]]

\* the threads are interchangeable: their requests are drawn in
\* non-decreasing order of the numbering
InitReaders ==
    /\ titles = << >>
    /\ _primary_title = [l \in Langs |-> None]
    /\ last = Call("init", "", "en", FALSE, FALSE, None, FALSE, "None")
    /\ call = [op |-> "none"]
    /\ objects = ReadTree
    /\ \E pick \in [Threads -> DOMAIN Requests] :
          /\ \A t \in Threads, u \in Threads : t < u => pick[t] <= pick[u]
          /\ threads = [t \in Threads |->
                          [request |-> Requests[pick[t]], ret |-> None,
                           stack |-> <<Frame(Requests[pick[t]].fn,
                                             Requests[pick[t]].self,
                                             Requests[pick[t]].lang)>>]]

\* thread t runs one step
Step(t) ==
    /\ threads[t].stack # << >>
    /\ LET r == ThreadStep(objects, threads[t])
       IN  /\ objects' = r.objects
           /\ threads' = [threads EXCEPT ![t] = r.thread]
    /\ UNCHANGED <<titles, _primary_title, last, call>>

NextReaders == \E t \in Threads : Step(t)

SpecReaders == InitReaders /\ [][NextReaders]_vars

\* the heap after the requests of threads 1 .. n made one after the other
RECURSIVE OneByOne(_, _)
OneByOne(h, n) ==
    IF n = 0 THEN h
    ELSE Sequential(OneByOne(h, n - 1), threads[n].request).objects

\* C17: concurrent read-only safety.  With no edit going on, every read
\* made by a thread returns what the same read returns when a single
\* thread makes it, whatever the interleaving, and when all threads are
\* through the caches hold those values.
ConcurrentReads ==
    /\ \A t \in DOMAIN threads :
          threads[t].ret # None
            => threads[t].ret[1] = Sequential(ReadTree, threads[t].request).ret
    /\ (threads # << >> /\ \A t \in DOMAIN threads : threads[t].stack = << >>)
          => objects = OneByOne(ReadTree, MaxThreads)

\* two threads asked for the English full title of N on the tree as built;
\* both found the cache empty; the first has returned "R, N", the second is
\* about to store its own value
ConcurrentReadsWitness ==
    /\ threads # << >>
    /\ \E t \in Threads, u \in Threads :
          /\ t # u
          /\ threads[t].request = [fn |-> "full_title", self |-> "N", lang |-> "en"]
          /\ threads[u].request = threads[t].request
          /\ threads[t].ret = Some("R, N")
          /\ threads[u].stack # << >>
          /\ Len(threads[u].stack) = 1
          /\ Top(threads[u]).pc = 488 /\ Top(threads[u]).tmp # None

(***************************************************************************)
(* AddressType.regex and NumberedTitledTreeNode.address_regex in either    *)
(* language.  The Hebrew pattern texts are kept as they are written in the *)
(* source, each under a name (Verbatim); the assembly around them is built *)
(* piece by piece as for English.                                          *)
(***************************************************************************)
Verbatim(text) == [t |-> "verbatim", text |-> text]

\* AddressType.hebrew_number_regex(), lines 1058-1070
hebrew_number_regex == Verbatim("hebrew_number_regex")

\* section_patterns[lang] of the address class
section_patterns(atype, lang) ==
    IF lang = "en" THEN section_patterns_en(atype)
    ELSE IF atype = "Talmud" THEN Some(Verbatim("AddressTalmud.section_patterns.he"))
    ELSE IF atype = "Perek" THEN Some(Verbatim("AddressPerek.section_patterns.he"))
    ELSE IF atype = "Mishnah" THEN Some(Verbatim("AddressMishnah.section_patterns.he"))
    ELSE None

\* _core_regex(lang, group_id): group_id = "" stands for None
_core_regex(atype, lang, group_id) ==
    IF lang = "en" THEN _core_regex_en(atype, group_id)
    ELSE IF atype = "Talmud"
    THEN Group(group_id, Cat(<<hebrew_number_regex,
                               Verbatim("AddressTalmud._core_regex.he.amud")>>))
    ELSE Group(group_id, hebrew_number_regex)

\* AddressType.regex(lang, group_id, strict=...)
regex(atype, lang, group_id, strict) ==
    IF section_patterns(atype, lang) # None
    THEN Cat(<<IF strict THEN section_patterns(atype, lang)[1]
               ELSE Opt(section_patterns(atype, lang)[1]),
               _core_regex(atype, lang, group_id)>>)
    ELSE _core_regex(atype, lang, group_id)

\* "a{}".format(i), or None for for_js
GroupId(i, for_js) == IF for_js THEN "" ELSE "a" \o DigitChars[i + 1]

\* the fragment of level i > 0, lines 706-708
LevelFragment(atypes, i, lang, for_js, strict) ==
    LET wrapped == Group("", Cat(<<after_title_delimiter_re,
                                   regex(atypes[i + 1], lang, GroupId(i, for_js),
                                         strict)>>))
    IN  IF strict THEN wrapped ELSE Opt(wrapped)

\* address_regex(lang, for_js=..., strict=...) of a node with the given
\* address types and depth
address_regex(atypes, depth, lang, for_js, strict) ==
    LET first == regex(atypes[1], lang, GroupId(0, for_js), strict)
    IN  IF stop_parsing(atypes[1], lang) THEN first
        ELSE Cat(<<first>> \o
                 [k \in 1 .. depth - 1 |->
                    LevelFragment(atypes, k, lang, for_js, strict)])

(***************************************************************************)
(* Assembling the address pattern as a state machine: a numbered node (its *)
(* address types, one per level) and the arguments arrive, address_regex   *)
(* is computed.                                                            *)
(***************************************************************************)
MaxLevels == 3

LevelShapes == ListsUpTo(AddressTypes, MaxLevels) \ {<< >>}

InitAddressRegex ==
    /\ titles = << >>
    /\ _primary_title = [l \in Langs |-> None]
    /\ last = Call("init", "", "en", FALSE, FALSE, None, FALSE, "None")
    /\ objects = << >>
    /\ threads = << >>
    /\ call \in
         {[op |-> "address_regex", done |-> FALSE, atypes |-> atypes,
           lang |-> lang, for_js |-> for_js, strict |-> strict]
            : atypes \in LevelShapes, lang \in Langs,
              for_js \in BOOLEAN, strict \in BOOLEAN}

AddressRegex ==
    /\ call.op = "address_regex" /\ ~call.done
    /\ call' = [op |-> call.op, done |-> TRUE, atypes |-> call.atypes,
                lang |-> call.lang, for_js |-> call.for_js,
                strict |-> call.strict,
                res |-> address_regex(call.atypes, Len(call.atypes), call.lang,
                                      call.for_js, call.strict)]
    /\ UNCHANGED <<titles, _primary_title, last, objects, threads>>

NextAddressRegex == AddressRegex

SpecAddressRegex == InitAddressRegex /\ [][NextAddressRegex]_vars

\* the names of the named groups of a pattern
RECURSIVE GroupsIn(_)
GroupsIn(r) ==
    CASE r.t \in {"cat", "alt"} -> UNION {GroupsIn(r.parts[k]) : k \in DOMAIN r.parts}
      [] r.t \in {"plus", "opt", "look"} -> GroupsIn(r.r)
      [] r.t = "group" -> (IF r.name = "" THEN {} ELSE {r.name}) \cup GroupsIn(r.r)
      [] OTHER -> {}

\* how many times the level delimiter occurs in a pattern: once per
\* fragment of a level i > 0
RECURSIVE DelimitersIn(_)
RECURSIVE DelimitersInParts(_, _)
DelimitersInParts(parts, k) ==
    IF k > Len(parts) THEN 0
    ELSE DelimitersIn(parts[k]) + DelimitersInParts(parts, k + 1)
DelimitersIn(r) ==
    IF r = after_title_delimiter_re THEN 1
    ELSE CASE r.t \in {"cat", "alt"} -> DelimitersInParts(r.parts, 1)
           [] r.t \in {"plus", "opt", "look", "group"} -> DelimitersIn(r.r)
           [] OTHER -> 0

\* the levels i > 0 no level before which declares stop_parsing(lang)
LevelsBeforeStop(atypes, lang) ==
    {i \in 1 .. Len(atypes) - 1 :
        \A j \in 0 .. i - 1 : ~stop_parsing(atypes[j + 1], lang)}

\* C18: stop-parsing in the assembly.  The fragment and capture group of a
\* level i > 0 is in address_regex(lang) exactly if no level before it
\* declares stop_parsing(lang): once a level declares it, at whatever
\* depth, no deeper level is appended.  With Talmud at level 0,
\* address_regex("he") has no capture group for a deeper level.
StopParsingHalts ==
    (call.op = "address_regex" /\ call.done) =>
        LET levels == LevelsBeforeStop(call.atypes, call.lang)
        IN  /\ DelimitersIn(call.res) = Cardinality(levels)
            /\ ~call.for_js =>
                  GroupsIn(call.res) = {GroupId(i, FALSE) : i \in levels \cup {0}}

\* the part of C18 that the code does satisfy: the nodes with no Talmud
\* level below level 0
StopParsingAtLevelZero ==
    (/\ call.op = "address_regex" /\ call.done
     /\ \A i \in 2 .. Len(call.atypes) : call.atypes[i] # "Talmud")
        => StopParsingHalts

\* the English assembly is the one matched against citations (whose group
\* names are spelled out for three levels)
AddressRegexEnglish ==
    (/\ call.op = "address_regex" /\ call.done /\ call.lang = "en"
     /\ Len(call.atypes) <= 3) =>
        call.res = address_regex_en(call.atypes, Len(call.atypes), call.for_js,
                                    call.strict)

(***************************************************************************)
(* Editing the titles of a tree: an authoring client holds the tree R - N  *)
(* (each node with its key as primary English title), edits the titles of  *)
(* one of the two nodes and asks for full titles in between.  `call` is    *)
(* the last call; for an edit, `changed` tells whether the record marked   *)
(* primary for the call's language is another one than before.             *)
(***************************************************************************)
MaxNodeTitles == 2

EditTree == append([o \in ReadNodes |-> NewSchemaNode(o)], "R", "N")

\* the other node still has the titles it was built with
OnlyEdited(self) ==
    \A o \in ReadNodes : o # self => objects[o].titles = EditTree[o].titles

InitEdits ==
    /\ titles = << >>
    /\ _primary_title = [l \in Langs |-> None]
    /\ last = Call("init", "", "en", FALSE, FALSE, None, FALSE, "None")
    /\ threads = << >>
    /\ objects = EditTree
    /\ call = [op |-> "none"]

\* self.add_title(text, lang, primary, replace_primary)
NodeAddTitle(self, text, lang, primary, replace_primary) ==
    LET r == node_add_title(objects, self, text, lang, primary, replace_primary,
                            "combined")
    IN  /\ OnlyEdited(self)
        /\ Len(objects[self].titles) < MaxNodeTitles
        /\ objects' = r.objects
        /\ call' = [op |-> "add_title", self |-> self, lang |-> lang,
                    raised |-> r.raised,
                    changed |-> ActualPrimary(r.objects[self].titles, lang)
                                  # ActualPrimary(objects[self].titles, lang)]
        /\ UNCHANGED <<titles, _primary_title, last, threads>>

\* self.remove_title(text, lang)
NodeRemoveTitle(self, text, lang) ==
    LET r == node_remove_title(objects, self, text, lang)
    IN  /\ OnlyEdited(self)
        /\ objects' = r.objects
        /\ call' = [op |-> "remove_title", self |-> self, lang |-> lang,
                    raised |-> "",
                    changed |-> ActualPrimary(r.objects[self].titles, lang)
                                  # ActualPrimary(objects[self].titles, lang)]
        /\ UNCHANGED <<titles, _primary_title, last, threads>>

\* self.full_title(lang)
NodeFullTitle(self, lang) ==
    LET r == full_title(objects, self, lang, RecursionLimit(objects))
    IN  /\ objects' = r.objects
        /\ call' = [op |-> "full_title", self |-> self, lang |-> lang,
                    raised |-> r.raised, ret |-> r.ret]
        /\ UNCHANGED <<titles, _primary_title, last, threads>>

\* the title the client adds; a node's own key is its first title
EditTexts == {"M"}

DoNodeAddTitle ==
    \E self \in ReadNodes, text \in EditTexts, lang \in Langs,
       primary \in BOOLEAN, replace_primary \in BOOLEAN :
        NodeAddTitle(self, text, lang, primary, replace_primary)

DoNodeRemoveTitle ==
    \E self \in ReadNodes : \E text \in EditTexts \cup {self}, lang \in Langs :
        NodeRemoveTitle(self, text, lang)

DoNodeFullTitle == \E self \in ReadNodes, lang \in Langs : NodeFullTitle(self, lang)

NextEdits == DoNodeAddTitle \/ DoNodeRemoveTitle \/ DoNodeFullTitle

SpecEdits == InitEdits /\ [][NextEdits]_vars

\* the text of the record marked primary, "" if there is none
PrimaryText(ts, lang) ==
    IF ActualPrimary(ts, lang) = None THEN "" ELSE ActualPrimary(ts, lang)[1]

\* C20: local full-title invalidation.  When add_title or remove_title has
\* changed the primary title of a node for a language, the next full_title
\* of that node in that language is built from the new primary title: the
\* new primary for a root, the parent's full title + ", " + the new primary
\* otherwise, even if full_title had been called on the node before.
FullTitleFollowsEdit ==
    (call.op \in {"add_title", "remove_title"} /\ call.changed) =>
        LET self == call.self
            new == PrimaryText(objects[self].titles, call.lang)
            next == full_title(objects, self, call.lang, RecursionLimit(objects))
        IN  next.ret =
              IF objects[self].parent = None THEN new
              ELSE full_title(objects, objects[self].parent[1], call.lang,
                              RecursionLimit(objects)).ret \o ", " \o new

\* what the code does satisfy: a node on which neither full_title nor
\* primary_title has stored anything for the language
FullTitleOfUnreadNode ==
    (/\ call.op \in {"add_title", "remove_title"} /\ call.changed
     /\ objects[call.self]._full_title[call.lang] = None
     /\ objects[call.self]._primary_title[call.lang] = None)
        => FullTitleFollowsEdit

\* the tree with only the title records of one language
InLanguage(tree, lang) ==
    [tree EXCEPT !.titles = [n \in DOMAIN @ |->
                               SelectSeq(@[n], LAMBDA t : t.lang = lang)]]

\* C21: the title dictionary is per-language.  Every key of title_dict(lang)
\* is built only from title records whose language is lang (combined keys
\* from records presented combined or both, standalone keys from records
\* presented alone or both): a record of another language contributes no
\* key, so the dictionary is the one of the tree without those records.
TitleDictPerLanguage ==
    (call.op = "title_dict" /\ call.done) =>
        call.res = title_dict(InLanguage(call.tree, call.lang), "P", call.lang,
                              call.baselist)

\* what the code does satisfy: the same, when no record of another language
\* is presented as "both"
TitleDictPerLanguageNoBoth ==
    ( /\ call.op = "title_dict" /\ call.done
      /\ \A n \in TreeNodes : \A i \in DOMAIN call.tree.titles[n] :
            call.tree.titles[n][i].presentation = "both"
                => call.tree.titles[n][i].lang = call.lang )
      => TitleDictPerLanguage

\* the primary English title of the root that was built contains a hyphen
HyphenInPrimaryTitle ==
    /\ call.op \in {"construct", "deserialize_tree"}
    /\ call.done /\ call.validated
    /\ LET text == PrimaryText(call.res.heap[<< >>].titles, "en")
       IN  \E k \in DOMAIN TitleChars(text) : TitleChars(text)[k] = "-"

\* C22: validation error kind.  validate() on a node whose primary English
\* title contains a hyphen fails with the schema error (IndexSchemaError),
\* the error kind of every other schema-validation failure, and not with
\* InputError.
HyphenIsSchemaError ==
    HyphenInPrimaryTitle => call.valid = "IndexSchemaError"

\* what the code does satisfy: validate() on such a node fails
HyphenFailsValidation ==
    HyphenInPrimaryTitle => call.valid \in {"IndexSchemaError", "InputError"}

(***************************************************************************)
(* AddressTalmud.toNumber("he", s).  A Hebrew text is a list of            *)
(* characters, each under its name: the letters alef, bet, gimel, yod,     *)
(* ayin, kuf and tav, the double quote, the gershayim, the single quote,   *)
(* the geresh, and the separators . : , and space.                         *)
(***************************************************************************)
HebrewLetterValue ==
    [alef |-> 1, bet |-> 2, gimel |-> 3, yod |-> 10, ayin |-> 70, kuf |-> 100,
     tav |-> 400]

\* sefaria.utils.hebrew.decode_hebrew_numeral: the sum of the values of the
\* letters, punctuation skipped
RECURSIVE decode_hebrew_numeral(_)
decode_hebrew_numeral(n) ==
    IF n = << >> THEN 0
    ELSE (IF Head(n) \in DOMAIN HebrewLetterValue THEN HebrewLetterValue[Head(n)]
          ELSE 0) + decode_hebrew_numeral(Tail(n))

\* re.split("[.:,\s]", s)[0]: the text before the first separator
RECURSIVE SplitFirst(_)
SplitFirst(s) ==
    IF s = << >> \/ Head(s) \in {".", ":", ","} \cup Space THEN << >>
    ELSE <<Head(s)>> \o SplitFirst(Tail(s))

\* s[-k], for k <= len(s)
FromEnd(s, k) == s[Len(s) - k + 1]

\* AddressTalmud.toNumber("he", s), lines 1150-1162
toNumberHe(s) ==
    IF s = << >> THEN Raised("IndexError")          \* s[-1] of an empty string
    ELSE
    LET num == SplitFirst(s)
        daf == decode_hebrew_numeral(num) * 2
    IN  IF \/ FromEnd(s, 1) = ":"
           \/ /\ FromEnd(s, 1) = "bet"
              /\ \/ (Len(s) > 2 /\ FromEnd(s, 2) \in {",", " "})
                 \/ (Len(s) > 4 /\ FromEnd(s, 3) = "ayin")
                 \/ (Len(s) > 5 /\ FromEnd(s, 4) = "ayin")
        THEN Returned(daf)
        ELSE Returned(daf - 1)

(***************************************************************************)
(* Hebrew daf citations: a numeral in one of the three styles of           *)
(* hebrew_number_regex (with a double quote, two single quotes or a        *)
(* gershayim before the last letter; letters only; one letter and a single *)
(* quote or geresh), followed by one of the amud markers of _core_regex.   *)
(***************************************************************************)
MaxTavs == 1

RECURSIVE Tavs(_)
Tavs(n) == IF n = 0 THEN << >> ELSE <<"tav">> \o Tavs(n - 1)

\* the letters of a numeral: tavs, a hundreds letter, a tens letter, a unit
NumeralLetters ==
    { Tavs(n) \o h \o t \o u :
        n \in 0 .. MaxTavs, h \in {<< >>, <<"kuf">>},
        t \in {<< >>, <<"ayin">>, <<"yod">>},
        u \in {<< >>, <<"alef">>, <<"bet">>, <<"gimel">>} } \ {<< >>}

DoubleQuotes == {<<"\"">>, <<"gershayim">>, <<"'", "'">>}

\* the written forms of a numeral
Written(n) ==
    {n} \cup
    (IF Len(n) = 1 THEN {n \o <<"'">>, n \o <<"geresh">>}
     ELSE {SubSeq(n, 1, Len(n) - 1) \o q \o <<n[Len(n)]>> : q \in DoubleQuotes})

\* ([.:]|[,\s]+(?:ayin(?:"|gershayim|''))?[alef bet])?
AmudMarkers ==
    {<< >>, <<".">>, <<":">>} \cup
    { sep \o ay \o <<l>> :
        sep \in {<<",">>, <<" ">>, <<",", " ">>},
        ay \in {<< >>} \cup {<<"ayin">> \o q : q \in DoubleQuotes},
        l \in {"alef", "bet"} }

InitTalmudHe ==
    /\ titles = << >>
    /\ _primary_title = [l \in Langs |-> None]
    /\ last = Call("init", "", "en", FALSE, FALSE, None, FALSE, "None")
    /\ objects = << >>
    /\ threads = << >>
    /\ call \in
         {[op |-> "toNumber", lang |-> "he", done |-> FALSE, s |-> w \o mark]
            : w \in UNION {Written(n) : n \in NumeralLetters},
              mark \in AmudMarkers}

ToNumberHe ==
    /\ call.op = "toNumber" /\ call.lang = "he" /\ ~call.done
    /\ call' = [op |-> "toNumber", lang |-> "he", done |-> TRUE, s |-> call.s,
                res |-> toNumberHe(call.s)]
    /\ UNCHANGED <<titles, _primary_title, last, objects, threads>>

NextTalmudHe == ToNumberHe

SpecTalmudHe == InitTalmudHe /\ [][NextTalmudHe]_vars

\* what follows the daf numeral
MarkerOf(s) == SubSeq(s, Len(SplitFirst(s)) + 1, Len(s))

\* the marker m selects amud b: a colon, or a bet right after a separator,
\* after ayin and a quote character, or after ayin and a two-character
\* double quote
SelectsAmudB(m) ==
    /\ m # << >>
    /\ \/ FromEnd(m, 1) = ":"
       \/ /\ FromEnd(m, 1) = "bet"
          /\ \/ (Len(m) >= 2 /\ FromEnd(m, 2) \in {",", " "})
             \/ (/\ Len(m) >= 4 /\ FromEnd(m, 3) = "ayin"
                 /\ FromEnd(m, 2) \in {"\"", "gershayim"})
             \/ (/\ Len(m) >= 5 /\ FromEnd(m, 4) = "ayin"
                 /\ FromEnd(m, 3) = "'" /\ FromEnd(m, 2) = "'")

\* C23: Hebrew Talmud amud selection.  toNumber("he", s) returns 2*daf
\* (amud b) exactly when s ends in a colon, or in a bet that follows a
\* separator, ayin + quote or ayin + two-character double quote, all after
\* the daf numeral; in every other case, a bare numeral whose own letters
\* end in ayin, quote, bet included, it returns 2*daf - 1 (amud a), daf
\* being the decoded value of the numeral before the first separator.
HebrewAmudSelection ==
    (call.op = "toNumber" /\ call.lang = "he" /\ call.done) =>
        LET daf == decode_hebrew_numeral(SplitFirst(call.s))
        IN  call.res = Returned(IF SelectsAmudB(MarkerOf(call.s))
                                THEN 2 * daf ELSE 2 * daf - 1)

\* what the code does satisfy: the same, for a numeral followed by a marker,
\* and for a bare numeral of at most four characters
HebrewAmudSelectionMarked ==
    ( /\ call.op = "toNumber" /\ call.lang = "he" /\ call.done
      /\ (MarkerOf(call.s) # << >> \/ Len(call.s) <= 4) )
      => HebrewAmudSelection

=============================================================================
